---- MODULE Spec2Model ----
(***************************************************************************)
(* A model of the USB/IP server of nusbip (src/src/lib.rs): the device     *)
(* pool UsbIpServer (available_devices and used_devices, each behind its   *)
(* own tokio RwLock), the per-connection handler() loop and the task that  *)
(* server() spawns around it.                                              *)
(*                                                                         *)
(* A step of the model is what one task does between two suspension        *)
(* points (.await on a lock or on the socket).  A lock is granted to any   *)
(* task that asks for it while no one holds it; tokio's RwLock grants in   *)
(* FIFO order, which is one of these orders.  The read guards of the       *)
(* source (devlist, the `any` of remove_device) are taken and dropped      *)
(* without a suspension point in between, so a read is one step that       *)
(* needs the lock to have no writer.                                       *)
(***************************************************************************)
EXTENDS Integers, Sequences, FiniteSets, TLC

\* ---------------------------------------------------------------- bounds
NumDevices == 2      \* devices (bus ids 1..NumDevices stand for "0-0-n")
MaxCmds == 4         \* commands the peers send in total
MaxOps == 2          \* calls one management/API task makes
FieldLen == 3        \* bytes of the busid field of OP_REQ_IMPORT (32 in the code)

\* ------------------------------------------------------------ the universe
Conns == {"c1", "c2"}              \* tasks spawned by server(), one per socket
Mgmt == {"m1", "m2", "m3"}         \* tasks that call the pool's API directly
Tasks == Conns \cup Mgmt
NoTask == "none"

BusIds == 1..NumDevices
UsbDevice(b) == [bus_id |-> b]
Devices == {UsbDevice(b) : b \in BusIds}
None == [bus_id |-> 0]            \* Option::None of Option<UsbDevice>
NoBus == None.bus_id

VARIABLES
    linux,              \* cfg!(target_os = "linux"), fixed at build time
    available_devices,  \* UsbIpServer.available_devices (Vec<UsbDevice>)
    used_devices,       \* UsbIpServer.used_devices (Vec<UsbDevice>)
    ad_lock,            \* the task holding available_devices.write(), or NoTask
    ud_lock,            \* the task holding used_devices.write(), or NoTask
    pc,                 \* where each task is
    ret,                \* for a task inside occupy/release: who called it
    dev,                \* the UsbDevice local of the running pool call
    bus,                \* the bus_id argument of the running pool call
    res,                \* result of the last pool call an API task made
    imported_device,    \* per connection: the Option<UsbDevice> slot
    resp,               \* per connection: the response being written
    hres,               \* per connection: what handler() returned
    ncmd,               \* commands the connections have read so far
    command,            \* per connection: the command read and not yet answered
    urb,                \* per connection: what handle_urb did for that command
    nops,               \* per API task: calls made so far
    cleaned,            \* history: cleanup() has run
    pool_ids            \* history: bus ids put into the pool minus removed

vars == <<linux, available_devices, used_devices, ad_lock, ud_lock, pc, ret,
          dev, bus, res, imported_device, resp, hres, ncmd, command, urb, nops,
          cleaned, pool_ids>>

poolv == <<available_devices, used_devices>>
lockv == <<ad_lock, ud_lock>>
connv == <<imported_device, resp, hres, ncmd, command, urb>>

\* ------------------------------------------------------- Vec<UsbDevice> helpers
\* (mutant) the closure does not compare the bus id: the first device matches
PositionAny(s, b) == IF s # <<>> THEN 1 ELSE 0

\* iter().position(|d| d.bus_id == bus_id): first index, 0 for None
Position(s, b) ==
    IF \E i \in 1..Len(s) : s[i].bus_id = b
    THEN CHOOSE i \in 1..Len(s) :
            s[i].bus_id = b /\ \A j \in 1..(i - 1) : s[j].bus_id # b
    ELSE 0

\* iter().any(|d| d.bus_id == bus_id)
AnyBusId(s, b) == \E i \in 1..Len(s) : s[i].bus_id = b

\* (mutant) nothing is removed
VecRemoveNothing(s, i) == s

\* Vec::remove(i): the vector without its i-th element
VecRemove(s, i) == SubSeq(s, 1, i - 1) \o SubSeq(s, i + 1, Len(s))

\* into_iter().filter(|d| d.bus_id != bus_id).collect()
FilterOut(s, b) == SelectSeq(s, LAMBDA d : d.bus_id # b)

\* if !v.iter().any(|x| x.bus_id == d.bus_id) { v.push(d) }
PushIfAbsent(s, d) == IF AnyBusId(s, d.bus_id) THEN s ELSE Append(s, d)

Count(s, b) == Cardinality({i \in 1..Len(s) : s[i].bus_id = b})
IdsOf(s) == {s[i].bus_id : i \in 1..Len(s)}

RECURSIVE PushAllIfAbsent(_, _)
\* for d in ud.clone() { if !ad.iter().any(..) { ad.push(d) } }
PushAllIfAbsent(a, u) ==
    IF u = <<>> THEN a ELSE PushAllIfAbsent(PushIfAbsent(a, Head(u)), Tail(u))

\* duplicate-free vectors over a set of devices
InjSeqs(S) ==
    UNION {{s \in [1..n -> S] : \A i, j \in 1..n : i # j => s[i] # s[j]} :
           n \in 0..Cardinality(S)}

\* ------------------------------------------------------------- results
Ok(d) == [ok |-> TRUE, err |-> "", device |-> d]
Err(e) == [ok |-> FALSE, err |-> e, device |-> None]
\* what a direct caller remembers of its last call: the call, its result, and
\* (for release) whether its call before was the same call
Result(op, arg, r) == [op |-> op, arg |-> arg, ok |-> r.ok, err |-> r.err,
                       device |-> r.device, again |-> FALSE]
NoResult == Result("none", None.bus_id, Err("none"))

\* std::io::Error::other("No available device")                 (occupy)
NoAvailableDevice == "No available device"
\* std::io::Error::other("Device {bus_id} is in use")           (remove_device)
DeviceInUse == "Device is in use"
\* std::io::Error::new(ErrorKind::NotFound, ..)                 (remove_device)
NotFound == "NotFound"

\* ------------------------------------------------- responses (usbip_protocol)
NoResp == [kind |-> "none"]
\* UsbIpResponse::op_rep_devlist(&devices)
op_rep_devlist(devices) == [kind |-> "OpRepDevlist", devices |-> devices]
\* UsbIpResponse::op_rep_import_success(&dev)
op_rep_import_success(d) == [kind |-> "OpRepImport", status |-> 0, device |-> d]
\* UsbIpResponse::op_rep_import_fail()
op_rep_import_fail == [kind |-> "OpRepImport", status |-> 1, device |-> None]

\* ------------------------------------------------------ the pool's vectors
\* (mutant) the front of the vector is removed, whatever the index
occupy_ad_front(ad, i) == Tail(ad)
\* (mutant) the device is cloned out of the vector and not removed
occupy_ad_clone(ad, i) == ad
\* occupy: ad.remove(i)
occupy_ad(ad, i) == VecRemove(ad, i)
\* (mutant) occupy returns the device without recording it as used
occupy_ud_skip(ud, d) == ud
\* occupy: if !ud.iter().any(|d| d.bus_id == device.bus_id) { ud.push(device.clone()) }
occupy_ud(ud, d) == PushIfAbsent(ud, d)
\* (mutant) the used vector is left as it was
release_ud_keep(ud, d) == ud
\* release: new_ud = ud without the entries of device.bus_id
release_ud(ud, d) == FilterOut(ud, d.bus_id)
\* (mutant) the device is not put back
release_ad_drop(ad, d) == ad
\* (mutant) the device is pushed without looking for its bus id
release_ad_push(ad, d) == Append(ad, d)
\* release: if !ad.iter().any(|d| d.bus_id == device.bus_id) { ad.push(device) }
release_ad(ad, d) == PushIfAbsent(ad, d)
\* cleanup: used devices go back to available; on Linux *ad = Vec::new()
cleanup_ad(ad, ud, on_linux) == IF on_linux THEN <<>> ELSE PushAllIfAbsent(ad, ud)
\* (mutant) cleanup leaves used_devices as it was
cleanup_ud_keep(ud) == ud

\* cleanup: *ud = Vec::new()
cleanup_ud(ud) == <<>>

\* ------------------------------------------------- returning from a pool call
\* (mutant) a successful import builds its reply and leaves the slot empty
AfterOccupyKeepsSlot(t, r) ==
    /\ ret' = [ret EXCEPT ![t] = "none"]
    /\ dev' = [dev EXCEPT ![t] = None]
    /\ bus' = [bus EXCEPT ![t] = NoBus]
    /\ IF ret[t] = "import"
       THEN /\ UNCHANGED imported_device
            /\ resp' = [resp EXCEPT ![t] = IF r.ok
                                           THEN op_rep_import_success(r.device)
                                           ELSE op_rep_import_fail]
            /\ pc' = [pc EXCEPT ![t] = "write"]
            /\ UNCHANGED res
       ELSE /\ res' = [res EXCEPT ![t] = Result("occupy", bus[t], r)]
            /\ pc' = [pc EXCEPT ![t] = "idle"]
            /\ UNCHANGED <<imported_device, resp>>

\* What the caller does with occupy's result up to its next suspension point.
\*   "import": handle_op_req_import, lines 334-344: fill the slot and build the
\*             reply, which handler() then writes;
\*   "api":    a direct caller keeps the result.
AfterOccupy(t, r) ==
    /\ ret' = [ret EXCEPT ![t] = "none"]
    /\ dev' = [dev EXCEPT ![t] = None]
    /\ bus' = [bus EXCEPT ![t] = NoBus]
    /\ IF ret[t] = "import"
       THEN /\ imported_device' =
                  [imported_device EXCEPT ![t] = IF r.ok THEN r.device ELSE @]
            /\ resp' = [resp EXCEPT ![t] = IF r.ok
                                           THEN op_rep_import_success(r.device)
                                           ELSE op_rep_import_fail]
            /\ pc' = [pc EXCEPT ![t] = "write"]
            /\ UNCHANGED res
       ELSE /\ res' = [res EXCEPT ![t] = Result("occupy", bus[t], r)]
            /\ pc' = [pc EXCEPT ![t] = "idle"]
            /\ UNCHANGED <<imported_device, resp>>

\* What the caller does after release() returns.
\*   "import":     handle_op_req_import goes on to occupy(bus_id), line 334;
\*   "bad_import": handler(), lines 463-470: back to reading;
\*   "read_err":   handler() returns (lines 442-447), the spawned task finds
\*                 the slot empty (line 523) and ends;
\*   "srv":        the spawned task ends (line 526);
\*   "api":        a direct caller goes on.
\* A task that has ended keeps, in ret and dev, how it ended and what it
\* released last; a re-import keeps in dev what it released until its occupy
\* is over.
AfterRelease(t) ==
    /\ dev' = [dev EXCEPT ![t] = IF ret[t] \in {"read_err", "srv", "import"}
                                 THEN @ ELSE None]
    /\ res' = [res EXCEPT ![t] = IF ret[t] = "api"
                                 THEN [Result("release", dev[t].bus_id, Ok(None))
                                          EXCEPT !.again = (res[t].op = "release"
                                                            /\ res[t].arg = dev[t].bus_id)]
                                 ELSE @]
    /\ IF ret[t] = "import"
       THEN /\ pc' = [pc EXCEPT ![t] = "occ_ad"]
            /\ UNCHANGED <<ret, bus>>
       ELSE /\ pc' = [pc EXCEPT ![t] =
                        CASE ret[t] = "bad_import" -> "read"
                          [] ret[t] = "read_err" -> "done"
                          [] ret[t] = "srv" -> "done"
                          [] OTHER -> "idle"]
            /\ ret' = [ret EXCEPT ![t] = IF @ \in {"read_err", "srv"} THEN @ ELSE "none"]
            /\ bus' = [bus EXCEPT ![t] = NoBus]

\* ------------------------------------------------------------ UsbIpServer
\* add_device, lines 226-228.  The caller's obligation (spec 4.4) is part of
\* the environment: the bus id is in neither set.
add_device(t, d) ==
    /\ pc[t] = "idle" /\ nops[t] < MaxOps
    /\ ad_lock = NoTask
    /\ d.bus_id \notin IdsOf(available_devices) \cup IdsOf(used_devices)
    /\ available_devices' = Append(available_devices, d)
    /\ pool_ids' = pool_ids \cup {d.bus_id}
    /\ res' = [res EXCEPT ![t] = Result("add_device", d.bus_id, Ok(None))]
    /\ nops' = [nops EXCEPT ![t] = @ + 1]
    /\ UNCHANGED <<linux, used_devices, lockv, pc, ret, dev, bus, connv, cleaned>>

\* remove_device, lines 230-238 and the test of line 239: takes the write
\* lock of available_devices; a device found there is removed at once.
\* Otherwise the call goes on to read used_devices, still holding the lock.
remove_device_ad(t, b) ==
    /\ pc[t] = "idle" /\ nops[t] < MaxOps
    /\ ad_lock = NoTask
    /\ nops' = [nops EXCEPT ![t] = @ + 1]
    /\ LET i == Position(available_devices, b) IN
       IF i # 0
       THEN /\ available_devices' = VecRemove(available_devices, i)
            /\ res' = [res EXCEPT ![t] = Result("remove_device", b, Ok(None))]
            /\ pool_ids' = pool_ids \ {b}
            /\ UNCHANGED <<ad_lock, pc, bus>>
       ELSE /\ ad_lock' = t
            /\ pc' = [pc EXCEPT ![t] = "rm_ud"]
            /\ bus' = [bus EXCEPT ![t] = b]
            /\ UNCHANGED <<available_devices, res, pool_ids>>
    /\ UNCHANGED <<linux, used_devices, ud_lock, ret, dev, connv, cleaned>>

\* (mutant) used_devices is not looked at: whatever is not available is NotFound
remove_device_ud_blind(t) ==
    /\ pc[t] = "rm_ud"
    /\ ud_lock = NoTask
    /\ res' = [res EXCEPT ![t] = Result("remove_device", bus[t], Err(NotFound))]
    /\ ad_lock' = NoTask
    /\ pc' = [pc EXCEPT ![t] = "idle"]
    /\ bus' = [bus EXCEPT ![t] = NoBus]
    /\ UNCHANGED <<linux, poolv, ud_lock, ret, dev, connv, nops, cleaned, pool_ids>>

\* remove_device, lines 239-255: used_devices.read() and the two errors.
remove_device_ud(t) ==
    /\ pc[t] = "rm_ud"
    /\ ud_lock = NoTask
    /\ res' = [res EXCEPT ![t] = Result("remove_device", bus[t],
                                     IF AnyBusId(used_devices, bus[t])
                                     THEN Err(DeviceInUse) ELSE Err(NotFound))]
    /\ ad_lock' = NoTask
    /\ pc' = [pc EXCEPT ![t] = "idle"]
    /\ bus' = [bus EXCEPT ![t] = NoBus]
    /\ UNCHANGED <<linux, poolv, ud_lock, ret, dev, connv, nops, cleaned, pool_ids>>

\* (mutant) the guard of available_devices is dropped before used_devices is
\* locked
occupy_ad_step_unlocked(t) ==
    /\ pc[t] = "occ_ad"
    /\ ad_lock = NoTask
    /\ LET i == Position(available_devices, bus[t]) IN
       IF i = 0
       THEN /\ AfterOccupy(t, Err(NoAvailableDevice))
            /\ UNCHANGED available_devices
       ELSE /\ available_devices' = occupy_ad(available_devices, i)
            /\ dev' = [dev EXCEPT ![t] = available_devices[i]]
            /\ pc' = [pc EXCEPT ![t] = "occ_ud"]
            /\ UNCHANGED <<ret, bus, res, imported_device, resp>>
    /\ UNCHANGED <<linux, used_devices, ad_lock, ud_lock, hres, ncmd, command, urb, nops,
                   cleaned, pool_ids>>

\* occupy, lines 259-263: the write lock of available_devices, the lookup,
\* and either the error or the removal.
occupy_ad_step(t) ==
    /\ pc[t] = "occ_ad"
    /\ ad_lock = NoTask
    /\ LET i == Position(available_devices, bus[t]) IN
       IF i = 0
       THEN /\ AfterOccupy(t, Err(NoAvailableDevice))
            /\ UNCHANGED <<available_devices, ad_lock>>
       ELSE /\ available_devices' = occupy_ad(available_devices, i)
            /\ dev' = [dev EXCEPT ![t] = available_devices[i]]
            /\ ad_lock' = t
            /\ pc' = [pc EXCEPT ![t] = "occ_ud"]
            /\ UNCHANGED <<ret, bus, res, imported_device, resp>>
    /\ UNCHANGED <<linux, used_devices, ud_lock, hres, ncmd, command, urb, nops,
                   cleaned, pool_ids>>

\* occupy, lines 264-268: the write lock of used_devices, the push, Ok(device);
\* both guards are dropped on return.
occupy_ud_step(t) ==
    /\ pc[t] = "occ_ud"
    /\ ud_lock = NoTask
    /\ used_devices' = occupy_ud(used_devices, dev[t])
    /\ ad_lock' = NoTask
    /\ AfterOccupy(t, Ok(dev[t]))
    /\ UNCHANGED <<linux, available_devices, ud_lock, hres, ncmd, command, urb, nops,
                   cleaned, pool_ids>>

\* release, line 272: the write lock of used_devices.
release_ud_step(t) ==
    /\ pc[t] = "rel_ud"
    /\ ud_lock = NoTask
    /\ ud_lock' = t
    /\ pc' = [pc EXCEPT ![t] = "rel_ad"]
    /\ UNCHANGED <<linux, poolv, ad_lock, ret, dev, bus, res, connv, nops, cleaned,
                   pool_ids>>

\* release, lines 273-283: the write lock of available_devices, then both
\* vectors are rewritten and both guards dropped.
release_ad_step(t) ==
    /\ pc[t] = "rel_ad"
    /\ ad_lock = NoTask
    /\ used_devices' = release_ud(used_devices, dev[t])
    /\ available_devices' = release_ad(available_devices, dev[t])
    /\ ud_lock' = NoTask
    /\ AfterRelease(t)
    /\ UNCHANGED <<linux, ad_lock, connv, nops, cleaned, pool_ids>>

\* cleanup, line 287: the write lock of used_devices.
cleanup_ud_step(t) ==
    /\ pc[t] = "idle" /\ nops[t] < MaxOps
    /\ ud_lock = NoTask
    /\ ud_lock' = t
    /\ pc' = [pc EXCEPT ![t] = "cl_ad"]
    /\ nops' = [nops EXCEPT ![t] = @ + 1]
    /\ UNCHANGED <<linux, poolv, ad_lock, ret, dev, bus, res, connv, cleaned, pool_ids>>

\* cleanup, lines 288-304.
cleanup_ad_step(t) ==
    /\ pc[t] = "cl_ad"
    /\ ad_lock = NoTask
    /\ available_devices' = cleanup_ad(available_devices, used_devices, linux)
    /\ used_devices' = cleanup_ud(used_devices)
    /\ ud_lock' = NoTask
    /\ pc' = [pc EXCEPT ![t] = "idle"]
    /\ res' = [res EXCEPT ![t] = Result("cleanup", None.bus_id, Ok(None))]
    /\ cleaned' = TRUE
    /\ UNCHANGED <<linux, ad_lock, ret, dev, bus, connv, nops, pool_ids>>

\* A direct caller of occupy(bus_id), up to the first .await.
call_occupy(t, b) ==
    /\ pc[t] = "idle" /\ nops[t] < MaxOps
    /\ pc' = [pc EXCEPT ![t] = "occ_ad"]
    /\ ret' = [ret EXCEPT ![t] = "api"]
    /\ bus' = [bus EXCEPT ![t] = b]
    /\ nops' = [nops EXCEPT ![t] = @ + 1]
    /\ UNCHANGED <<linux, poolv, lockv, dev, res, connv, cleaned, pool_ids>>

\* A direct caller of release(device), up to the first .await.
call_release(t, d) ==
    /\ pc[t] = "idle" /\ nops[t] < MaxOps
    /\ pc' = [pc EXCEPT ![t] = "rel_ud"]
    /\ ret' = [ret EXCEPT ![t] = "api"]
    /\ dev' = [dev EXCEPT ![t] = d]
    /\ nops' = [nops EXCEPT ![t] = @ + 1]
    /\ UNCHANGED <<linux, poolv, lockv, bus, res, connv, cleaned, pool_ids>>

\* -------------------------------------------------------------- USB/IP URBs
SeqNums == {7, 9}                   \* header.seqnum values the peer sends
EpInputs == {0, 1, 2, 3, 129, 258}     \* header.ep values the peer sends (u32)
TransferLens == {8}                \* transfer_buffer_length values
RespLens == {4}                    \* lengths of what a URB handler returns
DevIds == {65538}                  \* header.devid values the peer sends

USBIP_CMD_SUBMIT == 1
USBIP_CMD_UNLINK == 2
USBIP_RET_SUBMIT == 3
USBIP_RET_UNLINK == 4

Headers(cmd) == [command : {cmd}, seqnum : SeqNums, devid : DevIds,
                 direction : {0, 1}, ep : EpInputs]

\* The commands the peers of the running server send: endpoint number 1 in
\* either direction (0x81 is on the device, 0x01 is not), one seqnum.
SubmitHeaders == {h \in Headers(USBIP_CMD_SUBMIT) : h.ep = 1 /\ h.seqnum = 7}
UnlinkHeaders == {h \in Headers(USBIP_CMD_UNLINK) : h.ep = 1 /\ h.seqnum = 7}
UnlinkSeqNums == {7}

\* x | 0x80 on a u32
Or80(x) == IF (x \div 128) % 2 = 1 THEN x ELSE x + 128
\* x as u8
AsU8(x) == x % 256

\* UsbEndpoint::direction(): bit 7 of the address
Direction(address) == IF (address \div 128) % 2 = 1 THEN "In" ELSE "Out"

\* The endpoints of the one interface each device of the model has.
InterfaceEndpoints(d) == {129, 2}

\* UsbDevice::find_ep: 0x00/0x80 are ep0 with no interface, otherwise the
\* interfaces' endpoints are searched; None when nothing matches.
find_ep(d, address) ==
    IF address \in {0, 128} THEN [found |-> TRUE, address |-> address, intf |-> 0]
    ELSE IF address \in InterfaceEndpoints(d)
         THEN [found |-> TRUE, address |-> address, intf |-> 1]
         ELSE [found |-> FALSE, address |-> address, intf |-> 0]

\* The addresses find_ep can answer for: ep0_out, ep0_in and the interfaces'
\* endpoints.
EndpointAddresses(d) == {0, 128} \cup InterfaceEndpoints(d)

\* line 356: real_ep, a u32
real_ep(header) == IF header.direction = 0 THEN header.ep ELSE Or80(header.ep)

\* What UsbDevice::handle_urb can do: return bytes, return an error, or
\* panic (the unimplemented!() arms of host.rs).
UrbOutcomes == {[kind |-> "Ok", len |-> n] : n \in RespLens}
               \cup {[kind |-> "Err", len |-> 0], [kind |-> "Panic", len |-> 0]}

\* ------------------------------------------------------------ host.rs (nusb)
\* What the handlers of host.rs read of a URB: the transfer type of the
\* endpoint, whether setup.request_type has a control type (bits 5-6) and a
\* recipient (bits 0-4) the handler knows, and its direction bit (0x80).
EndpointAttributes == {"Control", "Interrupt", "Bulk", "Isochronous"}
SetupPackets == [known : BOOLEAN, dir_in : BOOLEAN]

\* The result of the transfer the handler hands to the host's USB stack.
BackendResults == {[ok |-> TRUE, len |-> n] : n \in RespLens}
                  \cup {[ok |-> FALSE, len |-> 0]}

\* transfer_buffer_length is a u32; the model keeps its wrap-around on
\* WordBits bits.  usize is wider and does not wrap for the lengths here.
WordBits == 8
SubU32(a, b) == (a + 2^WordBits - b) % 2^WordBits

\* host.rs lines 551-552: the length of the buffer a bulk IN transfer asks
\* the endpoint for, as a build without overflow checks computes it.
bulk_in_requested_len(transfer_buffer_length, max_packet_size) ==
    (SubU32(transfer_buffer_length, 1) \div max_packet_size + 1) * max_packet_size

\* The handler's result, with the transfer it came from.
HostOutcome(kind, len, attributes, dir_in, backend, max_packet_size, requested_len) ==
    [kind |-> kind, len |-> len, attributes |-> attributes, dir_in |-> dir_in,
     backend |-> backend, max_packet_size |-> max_packet_size,
     requested_len |-> requested_len]

\* handle_urb_for_interface, host.rs lines 344-593.  A failed control IN or
\* interrupt IN transfer falls through to the final Ok(vec![]) (lines 387,
\* 466, 592); the other transfers return the error with `?`.  For a bulk IN
\* transfer `transfer_buffer_length - 1` (line 552) panics in a build with
\* overflow checks when the length is 0, and wraps in one without.
handle_urb_for_interface(attributes, dir_in, transfer_buffer_length, setup, backend, max_packet_size, overflow_checks) ==
    LET bulk_in == attributes = "Bulk" /\ dir_in
        kind ==
          IF attributes = "Control" /\ ~setup.known THEN "Panic"
          ELSE IF bulk_in /\ transfer_buffer_length = 0 /\ overflow_checks THEN "Panic"
          ELSE IF attributes = "Isochronous" \/ backend.ok THEN "Ok"
          ELSE IF dir_in /\ attributes \in {"Control", "Interrupt"} THEN "Ok"
          ELSE "Err"
        len ==
          IF kind = "Ok" /\ backend.ok /\ dir_in
          THEN CASE attributes = "Interrupt" -> transfer_buffer_length
                 [] attributes = "Isochronous" -> 0
                 [] OTHER -> backend.len
          ELSE 0
        requested_len ==
          IF bulk_in /\ kind # "Panic"
          THEN bulk_in_requested_len(transfer_buffer_length, max_packet_size)
          ELSE 0
    IN  HostOutcome(kind, len, attributes, dir_in, backend, max_packet_size,
                    requested_len)

\* handle_urb_for_device, host.rs lines 761-818: a control transfer on
\* endpoint 0, its direction taken from the setup packet.  A failed control
\* IN falls through to Ok(vec![]) (lines 811-817).
handle_urb_for_device(setup, backend) ==
    LET kind == IF ~setup.known THEN "Panic"
                ELSE IF backend.ok \/ setup.dir_in THEN "Ok" ELSE "Err"
        len == IF kind = "Ok" /\ backend.ok /\ setup.dir_in THEN backend.len ELSE 0
    IN  HostOutcome(kind, len, "Control", setup.dir_in, backend, 0, 0)

\* UsbDevice::handle_urb: endpoint 0 has no interface and goes to the device
\* handler, any other endpoint to its interface's handler.
handle_urb(ep, attributes, transfer_buffer_length, setup, backend, max_packet_size, overflow_checks) ==
    IF ep.intf = 0
    THEN handle_urb_for_device(setup, backend)
    ELSE handle_urb_for_interface(attributes, Direction(ep.address) = "In",
                                  transfer_buffer_length, setup, backend,
                                  max_packet_size, overflow_checks)

\* UsbIpResponse::usbip_ret_submit_success(&header, 0, actual_length, resp, vec![])
usbip_ret_submit_success(header, status, actual_length, data_len) ==
    [kind |-> "UsbIpRetSubmit", header |-> header, status |-> status,
     actual_length |-> actual_length, data_len |-> data_len]
\* UsbIpResponse::usbip_ret_submit_fail(&header, actual_length)
usbip_ret_submit_fail(header, actual_length) ==
    [kind |-> "UsbIpRetSubmit", header |-> header, status |-> 1,
     actual_length |-> actual_length, data_len |-> 0]
\* UsbIpResponse::usbip_ret_unlink_success(&header)
usbip_ret_unlink_success(header) ==
    [kind |-> "UsbIpRetUnlink", header |-> header, status |-> 0]

\* (mutant) direction and ep are left as the request had them
ReplyHeaderKeepsEp(header, cmd) == [header EXCEPT !.command = cmd, !.devid = 0]

\* The reply header of lines 358-363 and 418-422.
ReplyHeader(header, cmd) ==
    [header EXCEPT !.command = cmd, !.devid = 0, !.direction = 0, !.ep = 0]

\* (mutant) a failed URB always reports length 0
err_actual_length_zero(address, transfer_buffer_length) == 0

\* lines 398-401: actual_length of the reply to a failed URB
err_actual_length(address, transfer_buffer_length) ==
    IF Direction(address) = "In" THEN 0 ELSE transfer_buffer_length

\* lines 384-387: actual_length of the reply to a successful URB
ok_actual_length(address, resp_len, transfer_buffer_length) ==
    IF Direction(address) = "In" THEN resp_len ELSE transfer_buffer_length

\* handle_usbip_cmd_submit, lines 355-408, for a handler that did not panic.
handle_usbip_cmd_submit(header, transfer_buffer_length, d, outcome) ==
    LET h == ReplyHeader(header, USBIP_RET_SUBMIT)
        ep == find_ep(d, AsU8(real_ep(header)))
    IN  IF ~ep.found THEN usbip_ret_submit_fail(h, 0)
        ELSE IF outcome.kind = "Ok"
             THEN usbip_ret_submit_success(h, 0,
                     ok_actual_length(ep.address, outcome.len, transfer_buffer_length),
                     outcome.len)
             ELSE usbip_ret_submit_fail(h,
                     err_actual_length(ep.address, transfer_buffer_length))

\* (mutant) an unlink of a seqnum other than the request's own is refused
handle_usbip_cmd_unlink_checked(header, unlink_seqnum) ==
    [kind |-> "UsbIpRetUnlink", header |-> ReplyHeader(header, USBIP_RET_UNLINK),
     status |-> IF unlink_seqnum = header.seqnum THEN 0 ELSE 1]

\* handle_usbip_cmd_unlink, lines 411-427
handle_usbip_cmd_unlink(header, unlink_seqnum) ==
    usbip_ret_unlink_success(ReplyHeader(header, USBIP_RET_UNLINK))

\* ------------------------------------------------------------- handler()
\* The OP_REQ_IMPORT bus id field after lines 323-327: valid text naming a
\* bus id, or bytes that are not UTF-8.
ImportFields == {[utf8 |-> TRUE, bus_id |-> b] : b \in BusIds}
                \cup {[utf8 |-> FALSE, bus_id |-> NoBus]}
\* a busid field whose bytes before the first NUL are not UTF-8
BadImportField == [utf8 |-> FALSE, bus_id |-> NoBus]

\* The busid field as the bytes on the wire: NUL, the digits '1' and '2', and
\* 0xFF, which no UTF-8 text contains.
BusIdBytes == {0, 49, 50, 255}
BusIdFields == [1..FieldLen -> BusIdBytes]

\* The text of a device's bus id: device n is named by the digit n.
BusIdText(b) == <<48 + b>>
\* A bus id no device has.
UnknownBus == NumDevices + 1

\* busid.iter().position(|&x| x == 0).unwrap_or(busid.len()), counted from 0
FirstZero(busid) ==
    IF \E i \in 1..Len(busid) : busid[i] = 0
    THEN (CHOOSE i \in 1..Len(busid) :
             busid[i] = 0 /\ \A j \in 1..(i - 1) : busid[j] # 0) - 1
    ELSE Len(busid)

\* (mutant) the whole field is taken as the bus id
whole_busid(busid) == busid
\* line 323: &busid[..position of the first zero byte, or the length]
trimmed_busid(busid) == SubSeq(busid, 1, FirstZero(busid))

\* str::from_utf8 on the bytes the model has: ASCII is text, 0xFF is not
from_utf8(bytes) == \A i \in 1..Len(bytes) : bytes[i] < 128

\* lines 323-327 and the search of line 260: the field as handle_op_req_import
\* sees it, with the bus id its text names (a device's, or nobody's).
decode_busid(busid) ==
    LET text == trimmed_busid(busid)
    IN  IF ~from_utf8(text) THEN [utf8 |-> FALSE, bus_id |-> NoBus, raw |-> busid]
        ELSE [utf8 |-> TRUE,
              bus_id |-> IF \E b \in BusIds : BusIdText(b) = text
                         THEN CHOOSE b \in BusIds : BusIdText(b) = text
                         ELSE UnknownBus,
              raw |-> busid]

\* UsbIpCommand, the value read_from_socket returns (line 436), and the
\* absence of a command between a reply and the next read.
NoCommand == [kind |-> "none"]
OpReqDevlist == [kind |-> "OpReqDevlist"]
OpReqImport(busid) == [kind |-> "OpReqImport", busid |-> busid]
UsbIpCmdSubmit(header, transfer_buffer_length) ==
    [kind |-> "UsbIpCmdSubmit", header |-> header,
     transfer_buffer_length |-> transfer_buffer_length]
UsbIpCmdUnlink(header, unlink_seqnum) ==
    [kind |-> "UsbIpCmdUnlink", header |-> header, unlink_seqnum |-> unlink_seqnum]

\* read_from_socket returned Err(err) instead of a command (line 438)
ReadFailed(kind) == [kind |-> "ReadFailed", err |-> kind]

\* device.handle_urb (line 371) was not called for the command
NotCalled == [kind |-> "NotCalled", len |-> 0]

\* (mutant) the spawned task ends without looking at the slot
TaskEndsNoRelease(c, slot) ==
    /\ pc' = [pc EXCEPT ![c] = "done"]
    /\ UNCHANGED <<dev, imported_device, ret>>

\* The spawned task after handler() returned, lines 522-526: take the slot
\* and release what it held.  (Up to the first .await of release.)
TaskEnds(c, slot) ==
    IF slot # None
    THEN /\ dev' = [dev EXCEPT ![c] = slot]
         /\ imported_device' = [imported_device EXCEPT ![c] = None]
         /\ pc' = [pc EXCEPT ![c] = "rel_ud"]
         /\ ret' = [ret EXCEPT ![c] = "srv"]
    ELSE /\ pc' = [pc EXCEPT ![c] = "done"]
         /\ UNCHANGED <<dev, imported_device, ret>>

\* (mutant) every failed read is returned as an error
ReadErrorAlwaysErr(c, kind) ==
    /\ pc[c] = "read"
    /\ hres' = [hres EXCEPT ![c] = "Err"]
    /\ IF imported_device[c] # None
       THEN /\ dev' = [dev EXCEPT ![c] = imported_device[c]]
            /\ imported_device' = [imported_device EXCEPT ![c] = None]
            /\ pc' = [pc EXCEPT ![c] = "rel_ud"]
            /\ ret' = [ret EXCEPT ![c] = "read_err"]
       ELSE TaskEnds(c, None)
    /\ command' = [command EXCEPT ![c] = ReadFailed(kind)]
    /\ urb' = [urb EXCEPT ![c] = NotCalled]
    /\ UNCHANGED <<linux, poolv, lockv, bus, res, resp, ncmd, nops, cleaned, pool_ids>>

\* lines 436-449: read_from_socket fails; the slot is released and handler()
\* returns Ok for UnexpectedEof and the error otherwise.
ReadError(c, kind) ==
    /\ pc[c] = "read"
    /\ hres' = [hres EXCEPT ![c] = IF kind = "UnexpectedEof" THEN "Ok" ELSE "Err"]
    /\ IF imported_device[c] # None
       THEN /\ dev' = [dev EXCEPT ![c] = imported_device[c]]
            /\ imported_device' = [imported_device EXCEPT ![c] = None]
            /\ pc' = [pc EXCEPT ![c] = "rel_ud"]
            /\ ret' = [ret EXCEPT ![c] = "read_err"]
       ELSE TaskEnds(c, None)
    /\ command' = [command EXCEPT ![c] = ReadFailed(kind)]
    /\ urb' = [urb EXCEPT ![c] = NotCalled]
    /\ UNCHANGED <<linux, poolv, lockv, bus, res, resp, ncmd, nops, cleaned, pool_ids>>

\* lines 452, 306-308: OP_REQ_DEVLIST read; next is available_devices.read()
ReadDevlist(c) ==
    /\ pc[c] = "read" /\ ncmd < MaxCmds
    /\ ncmd' = ncmd + 1
    /\ pc' = [pc EXCEPT ![c] = "devlist"]
    /\ command' = [command EXCEPT ![c] = OpReqDevlist]
    /\ urb' = [urb EXCEPT ![c] = NotCalled]
    /\ UNCHANGED <<linux, poolv, lockv, ret, dev, bus, res, imported_device,
                   resp, hres, nops, cleaned, pool_ids>>

\* (mutant) the reply lists the used devices after the available ones
DevlistReadAll(c) ==
    /\ pc[c] = "devlist"
    /\ ad_lock = NoTask
    /\ resp' = [resp EXCEPT ![c] = op_rep_devlist(available_devices \o used_devices)]
    /\ pc' = [pc EXCEPT ![c] = "write"]
    /\ UNCHANGED <<linux, poolv, lockv, ret, dev, bus, res, imported_device,
                   hres, ncmd, command, urb, nops, cleaned, pool_ids>>

\* handle_op_req_devlist, lines 308-313
DevlistRead(c) ==
    /\ pc[c] = "devlist"
    /\ ad_lock = NoTask
    /\ resp' = [resp EXCEPT ![c] = op_rep_devlist(available_devices)]
    /\ pc' = [pc EXCEPT ![c] = "write"]
    /\ UNCHANGED <<linux, poolv, lockv, ret, dev, bus, res, imported_device,
                   hres, ncmd, command, urb, nops, cleaned, pool_ids>>

\* (mutant) an import with an invalid bus id leaves the slot as it was
ReadImportBadKeeps(c, field) ==
    /\ pc[c] = "read" /\ ncmd < MaxCmds
    /\ ncmd' = ncmd + 1
    /\ IF imported_device[c] # None /\ field.utf8
       THEN /\ dev' = [dev EXCEPT ![c] = imported_device[c]]
            /\ imported_device' = [imported_device EXCEPT ![c] = None]
            /\ pc' = [pc EXCEPT ![c] = "rel_ud"]
            /\ ret' = [ret EXCEPT ![c] = IF field.utf8 THEN "import" ELSE "bad_import"]
            /\ bus' = [bus EXCEPT ![c] = field.bus_id]
       ELSE IF field.utf8
            THEN /\ pc' = [pc EXCEPT ![c] = "occ_ad"]
                 /\ ret' = [ret EXCEPT ![c] = "import"]
                 /\ bus' = [bus EXCEPT ![c] = field.bus_id]
                 /\ UNCHANGED <<dev, imported_device>>
            ELSE UNCHANGED <<pc, ret, bus, dev, imported_device>>
    /\ command' = [command EXCEPT ![c] = OpReqImport(field)]
    /\ urb' = [urb EXCEPT ![c] = NotCalled]
    /\ UNCHANGED <<linux, poolv, lockv, res, resp, hres, nops, cleaned, pool_ids>>

\* (mutant) the slot is not looked at before occupy
ReadImportNoTake(c, field) ==
    /\ pc[c] = "read" /\ ncmd < MaxCmds
    /\ ncmd' = ncmd + 1
    /\ IF field.utf8
       THEN /\ pc' = [pc EXCEPT ![c] = "occ_ad"]
            /\ ret' = [ret EXCEPT ![c] = "import"]
            /\ bus' = [bus EXCEPT ![c] = field.bus_id]
       ELSE UNCHANGED <<pc, ret, bus>>
    /\ command' = [command EXCEPT ![c] = OpReqImport(field)]
    /\ urb' = [urb EXCEPT ![c] = NotCalled]
    /\ UNCHANGED <<linux, poolv, lockv, dev, imported_device, res, resp, hres, nops,
                   cleaned, pool_ids>>

\* lines 458-471 with handle_op_req_import, lines 323-334, up to the first
\* .await: a field that is not UTF-8 is an error before the slot is touched,
\* and handler() then empties the slot itself; a valid one takes the slot,
\* releases what it held and goes on to occupy.
ReadImport(c, field) ==
    /\ pc[c] = "read" /\ ncmd < MaxCmds
    /\ ncmd' = ncmd + 1
    /\ IF imported_device[c] # None
       THEN /\ dev' = [dev EXCEPT ![c] = imported_device[c]]
            /\ imported_device' = [imported_device EXCEPT ![c] = None]
            /\ pc' = [pc EXCEPT ![c] = "rel_ud"]
            /\ ret' = [ret EXCEPT ![c] = IF field.utf8 THEN "import" ELSE "bad_import"]
            /\ bus' = [bus EXCEPT ![c] = field.bus_id]
       ELSE IF field.utf8
            THEN /\ pc' = [pc EXCEPT ![c] = "occ_ad"]
                 /\ ret' = [ret EXCEPT ![c] = "import"]
                 /\ bus' = [bus EXCEPT ![c] = field.bus_id]
                 /\ UNCHANGED <<dev, imported_device>>
            ELSE UNCHANGED <<pc, ret, bus, dev, imported_device>>
    /\ command' = [command EXCEPT ![c] = OpReqImport(field)]
    /\ urb' = [urb EXCEPT ![c] = NotCalled]
    /\ UNCHANGED <<linux, poolv, lockv, res, resp, hres, nops, cleaned, pool_ids>>

\* (mutant) a submit without a device is answered with a failure reply
SubmitWithoutDeviceReply(c, header) ==
    /\ urb' = [urb EXCEPT ![c] = NotCalled]
    /\ resp' = [resp EXCEPT ![c] =
                  usbip_ret_submit_fail(ReplyHeader(header, USBIP_RET_SUBMIT), 0)]
    /\ pc' = [pc EXCEPT ![c] = "write"]
    /\ UNCHANGED imported_device

\* lines 479-485: no device is imported; error!() and `continue`
SubmitWithoutDevice(c, header) ==
    /\ urb' = [urb EXCEPT ![c] = NotCalled]
    /\ UNCHANGED <<pc, resp, imported_device>>

\* lines 472-498: USBIP_CMD_SUBMIT.  Without an imported device the command
\* is dropped; a panic of the URB handler unwinds the task, which drops the
\* slot without releasing it.
ReadSubmit(c, header, transfer_buffer_length, outcome) ==
    /\ pc[c] = "read" /\ ncmd < MaxCmds
    /\ ncmd' = ncmd + 1
    /\ command' = [command EXCEPT ![c] = UsbIpCmdSubmit(header, transfer_buffer_length)]
    /\ IF imported_device[c] = None
       THEN SubmitWithoutDevice(c, header)
       ELSE LET ep == find_ep(imported_device[c], AsU8(real_ep(header)))
            IN  /\ urb' = [urb EXCEPT ![c] = IF ep.found THEN outcome ELSE NotCalled]
                /\ IF ep.found /\ outcome.kind = "Panic"
                   THEN /\ pc' = [pc EXCEPT ![c] = "panicked"]
                        /\ imported_device' = [imported_device EXCEPT ![c] = None]
                        /\ UNCHANGED resp
                   ELSE /\ resp' = [resp EXCEPT ![c] = handle_usbip_cmd_submit(
                               header, transfer_buffer_length, imported_device[c], outcome)]
                        /\ pc' = [pc EXCEPT ![c] = "write"]
                        /\ UNCHANGED imported_device
    /\ UNCHANGED <<linux, poolv, lockv, ret, dev, bus, res, hres, nops, cleaned, pool_ids>>

\* (mutant) an unlink empties the slot
ReadUnlinkTakes(c, header, unlink_seqnum) ==
    /\ pc[c] = "read" /\ ncmd < MaxCmds
    /\ ncmd' = ncmd + 1
    /\ command' = [command EXCEPT ![c] = UsbIpCmdUnlink(header, unlink_seqnum)]
    /\ urb' = [urb EXCEPT ![c] = NotCalled]
    /\ resp' = [resp EXCEPT ![c] = handle_usbip_cmd_unlink(header, unlink_seqnum)]
    /\ pc' = [pc EXCEPT ![c] = "write"]
    /\ imported_device' = [imported_device EXCEPT ![c] = None]
    /\ UNCHANGED <<linux, poolv, lockv, ret, dev, bus, res, hres, nops, cleaned, pool_ids>>

\* lines 499-507: USBIP_CMD_UNLINK
ReadUnlink(c, header, unlink_seqnum) ==
    /\ pc[c] = "read" /\ ncmd < MaxCmds
    /\ ncmd' = ncmd + 1
    /\ command' = [command EXCEPT ![c] = UsbIpCmdUnlink(header, unlink_seqnum)]
    /\ urb' = [urb EXCEPT ![c] = NotCalled]
    /\ resp' = [resp EXCEPT ![c] = handle_usbip_cmd_unlink(header, unlink_seqnum)]
    /\ pc' = [pc EXCEPT ![c] = "write"]
    /\ UNCHANGED <<linux, poolv, lockv, ret, dev, bus, res, imported_device,
                   hres, nops, cleaned, pool_ids>>

\* r.write_to_socket(socket).await succeeds: back to the top of the loop
WriteOk(c) ==
    /\ pc[c] = "write"
    /\ pc' = [pc EXCEPT ![c] = "read"]
    /\ resp' = [resp EXCEPT ![c] = NoResp]
    /\ command' = [command EXCEPT ![c] = NoCommand]
    /\ urb' = [urb EXCEPT ![c] = NotCalled]
    /\ UNCHANGED <<linux, poolv, lockv, ret, dev, bus, res, imported_device,
                   hres, ncmd, nops, cleaned, pool_ids>>

\* (mutant) after a failed write the task ends without looking at the slot
WriteFailNoTake(c) ==
    /\ pc[c] = "write"
    /\ resp' = [resp EXCEPT ![c] = NoResp]
    /\ hres' = [hres EXCEPT ![c] = "Err"]
    /\ TaskEnds(c, None)
    /\ command' = [command EXCEPT ![c] = NoCommand]
    /\ urb' = [urb EXCEPT ![c] = NotCalled]
    /\ UNCHANGED <<linux, poolv, lockv, bus, res, ncmd, nops, cleaned, pool_ids>>

\* r.write_to_socket(socket).await? fails: handler() returns the error and
\* the spawned task releases the slot (lines 521-526)
WriteFail(c) ==
    /\ pc[c] = "write"
    /\ resp' = [resp EXCEPT ![c] = NoResp]
    /\ hres' = [hres EXCEPT ![c] = "Err"]
    /\ TaskEnds(c, imported_device[c])
    /\ command' = [command EXCEPT ![c] = NoCommand]
    /\ urb' = [urb EXCEPT ![c] = NotCalled]
    /\ UNCHANGED <<linux, poolv, lockv, bus, res, ncmd, nops, cleaned, pool_ids>>

\* ------------------------------------------------------- the running server
\* UsbIpServer::new_simulated(devices) with a duplicate-free device list,
\* server() running and every connection accepted.
InitTasks ==
    /\ ad_lock = NoTask /\ ud_lock = NoTask
    /\ pc = [t \in Tasks |-> IF t \in Conns THEN "read" ELSE "idle"]
    /\ ret = [t \in Tasks |-> "none"]
    /\ dev = [t \in Tasks |-> None]
    /\ bus = [t \in Tasks |-> NoBus]
    /\ res = [t \in Tasks |-> NoResult]
    /\ imported_device = [c \in Conns |-> None]
    /\ resp = [c \in Conns |-> NoResp]
    /\ hres = [c \in Conns |-> "none"]
    /\ ncmd = 0
    /\ command = [c \in Conns |-> NoCommand]
    /\ urb = [c \in Conns |-> NotCalled]
    /\ nops = [t \in Mgmt |-> 0]
    /\ cleaned = FALSE

Init ==
    /\ linux \in BOOLEAN
    /\ available_devices \in InjSeqs(Devices)
    /\ used_devices = <<>>
    /\ pool_ids = IdsOf(available_devices)
    /\ InitTasks

\* The task that manages the pool while the server runs (add_device,
\* remove_device, cleanup: the calls of examples/host.rs and of the tests).
Manager == {"m1"}

Read ==
    \E c \in Conns :
       \/ \E kind \in {"UnexpectedEof", "Other"} : ReadError(c, kind)
       \/ ReadDevlist(c)
       \/ \E field \in ImportFields : ReadImport(c, field)
       \/ \E header \in SubmitHeaders, n \in TransferLens,
             outcome \in UrbOutcomes : ReadSubmit(c, header, n, outcome)
       \/ \E header \in UnlinkHeaders, unlink_seqnum \in UnlinkSeqNums :
             ReadUnlink(c, header, unlink_seqnum)

Devlist == \E c \in Conns : DevlistRead(c)

Write == \E c \in Conns : WriteOk(c) \/ WriteFail(c)

Occupy == \E t \in Tasks : occupy_ad_step(t) \/ occupy_ud_step(t)

Release == \E t \in Tasks : release_ud_step(t) \/ release_ad_step(t)

Manage ==
    \E t \in Manager :
       \/ \E d \in Devices : add_device(t, d)
       \/ \E b \in BusIds : remove_device_ad(t, b)
       \/ remove_device_ud(t)
       \/ cleanup_ud_step(t)
       \/ cleanup_ad_step(t)

Next == Read \/ Devlist \/ Write \/ Occupy \/ Release \/ Manage

Spec == Init /\ [][Next]_vars

\* ------------------------------------------------- the pool's API, called directly
\* Any pool a server can have reached: no bus id twice.
PoolStates ==
    {p \in InjSeqs(Devices) \X InjSeqs(Devices) : IdsOf(p[1]) \cap IdsOf(p[2]) = {}}

InitPool ==
    /\ linux \in BOOLEAN
    /\ \E p \in PoolStates : available_devices = p[1] /\ used_devices = p[2]
    /\ pool_ids = IdsOf(available_devices) \cup IdsOf(used_devices)
    /\ InitTasks

\* Two tasks calling add_device, remove_device, occupy, release and cleanup
\* concurrently, each with any argument.
Callers == {"m1", "m2"}

PoolCall ==
    \E t \in Callers :
       \/ \E d \in Devices : add_device(t, d)
       \/ \E b \in BusIds : remove_device_ad(t, b)
       \/ \E b \in BusIds : call_occupy(t, b)
       \/ \E d \in Devices : call_release(t, d)
       \/ cleanup_ud_step(t)

PoolStep ==
    \E t \in Callers :
       \/ remove_device_ud(t)
       \/ cleanup_ad_step(t)
       \/ occupy_ad_step(t) \/ occupy_ud_step(t)
       \/ release_ud_step(t) \/ release_ad_step(t)

NextPool == PoolCall \/ PoolStep

SpecPool == InitPool /\ [][NextPool]_vars

\* Every task of Mgmt calls occupy once, concurrently.
OccupyOnce ==
    \E t \in Mgmt : \E b \in BusIds : nops[t] = 0 /\ call_occupy(t, b)

OccupySteps == \E t \in Mgmt : occupy_ad_step(t) \/ occupy_ud_step(t)

NextOccupy == OccupyOnce \/ OccupySteps

SpecOccupy == Init /\ [][NextOccupy]_vars

\* One task calling release, one call after the other.
ReleaseCall == \E d \in Devices : call_release("m1", d)

ReleaseSteps == release_ud_step("m1") \/ release_ad_step("m1")

NextRelease == ReleaseCall \/ ReleaseSteps

SpecRelease == InitPool /\ [][NextRelease]_vars

\* tests::add_and_remove_10_devices (lines 580-611): an empty pool; every
\* task of Mgmt that has a device (bus[t]) adds it from a task of its own and
\* then removes it from another, concurrently with the tasks of the other
\* devices.  No two tasks have the same bus id.
InitAddRemove ==
    /\ linux \in BOOLEAN
    /\ available_devices = <<>> /\ used_devices = <<>>
    /\ pool_ids = {}
    /\ ad_lock = NoTask /\ ud_lock = NoTask
    /\ pc = [t \in Tasks |-> IF t \in Conns THEN "read" ELSE "idle"]
    /\ ret = [t \in Tasks |-> "none"]
    /\ dev = [t \in Tasks |-> None]
    /\ bus \in {f \in [Tasks -> BusIds \cup {NoBus}] :
                  /\ \A c \in Conns : f[c] = NoBus
                  /\ \A t, u \in Mgmt : (t # u /\ f[t] # NoBus) => f[t] # f[u]}
    /\ res = [t \in Tasks |-> NoResult]
    /\ imported_device = [c \in Conns |-> None]
    /\ resp = [c \in Conns |-> NoResp]
    /\ hres = [c \in Conns |-> "none"]
    /\ ncmd = 0
    /\ command = [c \in Conns |-> NoCommand]
    /\ urb = [c \in Conns |-> NotCalled]
    /\ nops = [t \in Mgmt |-> 0]
    /\ cleaned = FALSE

AddTask == \E t \in Mgmt : nops[t] = 0 /\ bus[t] # NoBus /\ add_device(t, UsbDevice(bus[t]))

\* remove_device(&device.bus_id).await.unwrap().  The call does not get past
\* its first branch here (that is C11), so the read of used_devices is not
\* among the steps; a call that did would stay at "rm_ud".
RemoveTask == \E t \in Mgmt : nops[t] = 1 /\ remove_device_ad(t, bus[t])

NextAddRemove == AddTask \/ RemoveTask

SpecAddRemove == InitAddRemove /\ [][NextAddRemove]_vars

\* One connection and every command a peer can send on it: any seqnum,
\* direction and endpoint number in the header, any transfer length, any
\* unlink_seqnum; the manager changes the pool meanwhile.
Peer == "c1"
PeerTransferLens == {4, 8}

PeerRead ==
    \/ \E kind \in {"UnexpectedEof", "Other"} : ReadError(Peer, kind)
    \/ ReadDevlist(Peer)
    \/ \E field \in ImportFields : ReadImport(Peer, field)
    \/ \E header \in Headers(USBIP_CMD_SUBMIT), n \in PeerTransferLens,
          outcome \in UrbOutcomes : ReadSubmit(Peer, header, n, outcome)
    \/ \E header \in Headers(USBIP_CMD_UNLINK), unlink_seqnum \in SeqNums :
          ReadUnlink(Peer, header, unlink_seqnum)

PeerStep ==
    \/ DevlistRead(Peer)
    \/ WriteOk(Peer) \/ WriteFail(Peer)
    \/ occupy_ad_step(Peer) \/ occupy_ud_step(Peer)
    \/ release_ud_step(Peer) \/ release_ad_step(Peer)

NextPeer == PeerRead \/ PeerStep \/ Manage

SpecPeer == Init /\ [][NextPeer]_vars


\* server(), lines 516-521: the listener takes the next connection off the
\* socket and spawns its task, which starts handler() at read_from_socket.
\* Nothing a spawned task does is visible to the loop around accept().
Accept(c) ==
    /\ pc[c] = "listen"
    /\ pc' = [pc EXCEPT ![c] = "read"]
    /\ UNCHANGED <<linux, poolv, lockv, ret, dev, bus, res, connv, nops, cleaned, pool_ids>>

\* The running server with its connections still to be accepted.
InitServer ==
    /\ linux \in BOOLEAN
    /\ available_devices \in InjSeqs(Devices)
    /\ used_devices = <<>>
    /\ pool_ids = IdsOf(available_devices)
    /\ ad_lock = NoTask /\ ud_lock = NoTask
    /\ pc = [t \in Tasks |-> IF t \in Conns THEN "listen" ELSE "idle"]
    /\ ret = [t \in Tasks |-> "none"]
    /\ dev = [t \in Tasks |-> None]
    /\ bus = [t \in Tasks |-> NoBus]
    /\ res = [t \in Tasks |-> NoResult]
    /\ imported_device = [c \in Conns |-> None]
    /\ resp = [c \in Conns |-> NoResp]
    /\ hres = [c \in Conns |-> "none"]
    /\ ncmd = 0
    /\ command = [c \in Conns |-> NoCommand]
    /\ urb = [c \in Conns |-> NotCalled]
    /\ nops = [t \in Mgmt |-> 0]
    /\ cleaned = FALSE

Listener == \E c \in Conns : Accept(c)

NextServer == Listener \/ Next

SpecServer == InitServer /\ [][NextServer]_vars


\* One connection to a server whose devices are host devices (host.rs): a
\* submit is served by the nusb handlers, and the host's USB stack completes
\* or fails the transfer.
HostHeaders == {h \in Headers(USBIP_CMD_SUBMIT) : h.seqnum = 7 /\ h.ep \in {0, 1, 2}}

HostTransferLens == {0, 5}
MaxPacketSizes == {4}

HostSubmit ==
    \E header \in HostHeaders, attributes \in EndpointAttributes,
       setup \in SetupPackets, backend \in BackendResults,
       n \in HostTransferLens, max_packet_size \in MaxPacketSizes,
       overflow_checks \in BOOLEAN :
       ReadSubmit(Peer, header, n,
                  handle_urb(find_ep(imported_device[Peer], AsU8(real_ep(header))),
                             attributes, n, setup, backend,
                             max_packet_size, overflow_checks))

HostRead ==
    \/ \E kind \in {"UnexpectedEof", "Other"} : ReadError(Peer, kind)
    \/ ReadDevlist(Peer)
    \/ \E field \in ImportFields : ReadImport(Peer, field)
    \/ HostSubmit
    \/ \E header \in UnlinkHeaders, unlink_seqnum \in UnlinkSeqNums :
          ReadUnlink(Peer, header, unlink_seqnum)

NextHost == HostRead \/ PeerStep \/ Manage

SpecHost == Init /\ [][NextHost]_vars


\* One connection sending OP_REQ_IMPORT with any bytes in the busid field.
BusIdRead == \E busid \in BusIdFields : ReadImport(Peer, decode_busid(busid))

BusIdStep ==
    \/ WriteOk(Peer)
    \/ occupy_ad_step(Peer) \/ occupy_ud_step(Peer)
    \/ release_ud_step(Peer) \/ release_ad_step(Peer)

NextBusId == BusIdRead \/ BusIdStep

SpecBusId == Init /\ [][NextBusId]_vars

\* ===================================================================== claims

\* C1: at every instant, whatever the connections and the manager
\* (add_device of a bus id in neither set, remove_device, cleanup) have done,
\* no two connections hold the same bus_id in their import slots.
C1_AtMostOneImporter ==
    \A c1, c2 \in Conns :
        (c1 # c2 /\ imported_device[c1] # None)
            => imported_device[c1].bus_id # imported_device[c2].bus_id

\* The direct callers whose occupy(b) has returned, and those it returned Ok to.
OccupyCallers(b) == {t \in Mgmt : res[t].op = "occupy" /\ res[t].arg = b}
OccupyWinners(b) == {t \in OccupyCallers(b) : res[t].ok}
AllOccupiesDone == \A t \in Mgmt : pc[t] = "idle" /\ nops[t] = 1

\* C2: tasks calling occupy concurrently: of the calls naming a bus id that
\* is once in available_devices exactly one returns the device (that very
\* device) and every other one fails; at no time have two calls returned it.
C2_ExactlyOneOccupies ==
    \A b \in BusIds :
        /\ Cardinality(OccupyWinners(b)) <= 1
        /\ \A t \in OccupyWinners(b) : res[t].device = UsbDevice(b)
        /\ \A t \in OccupyCallers(b) \ OccupyWinners(b) :
               res[t].err = NoAvailableDevice
        /\ (AllOccupiesDone /\ OccupyCallers(b) # {})
               => Cardinality(OccupyWinners(b)) = (IF b \in pool_ids THEN 1 ELSE 0)

\* three concurrent calls for one bus id that was available, all returned
C2_Witness ==
    /\ AllOccupiesDone
    /\ \E b \in pool_ids : OccupyCallers(b) = Mgmt /\ Cardinality(OccupyWinners(b)) = 1

\* C3: with add_device only called for a bus id that is in neither set, in
\* every state reached by interleaving add_device, remove_device, occupy,
\* release and cleanup each bus id occurs at most once in available_devices
\* and used_devices taken together.
C3_NoDuplicateBusId ==
    \A b \in BusIds : Count(available_devices, b) + Count(used_devices, b) <= 1

\* a device was added, another occupied, one released again: both vectors filled
C3_Witness ==
    /\ Len(available_devices) >= 1 /\ Len(used_devices) >= 1
    /\ \E t1, t2 \in Callers :
          /\ res[t1].op = "release" /\ nops[t1] = MaxOps
          /\ res[t2].op \in {"add_device", "occupy"} /\ res[t2].ok /\ nops[t2] = MaxOps

\* No task is inside a call of the pool.
Quiescent ==
    \A t \in Tasks :
        pc[t] \notin {"occ_ad", "occ_ud", "rel_ud", "rel_ad", "rm_ud", "cl_ad", "devlist"}

PoolIds == IdsOf(available_devices) \cup IdsOf(used_devices)

C5_ReleasedOnEveryExit ==
    [][\A c \in Conns :
          /\ (hres'[c] # hres[c] /\ imported_device[c] # None)
                => /\ pc'[c] = "rel_ud"
                   /\ dev'[c] = imported_device[c]
                   /\ imported_device'[c] = None
          /\ (pc'[c] = "done" /\ pc[c] # "done")
                => /\ imported_device'[c] = None
                   /\ IF pc[c] = "rel_ad"
                      THEN /\ Count(available_devices', dev[c].bus_id) = 1
                           /\ Count(used_devices', dev[c].bus_id) = 0
                      ELSE imported_device[c] = None]_vars

\* a connection ended by a failed write after it had imported a device,
\* which is back in available_devices
C5_Witness ==
    \E c \in Conns :
        /\ pc[c] = "done" /\ ret[c] = "srv" /\ hres[c] = "Err"
        /\ dev[c] # None /\ Count(available_devices, dev[c].bus_id) = 1

\* The step on which connection c's OP_REQ_IMPORT gets its reply built.
ImportReplied(c) == ret[c] = "import" /\ pc[c] \in {"occ_ad", "occ_ud"} /\ pc'[c] = "write"

\* C6, first half: an OP_REQ_IMPORT for a bus id that is in available_devices
\* when occupy looks for it gets the success reply with that device, which
\* has then moved from available_devices to used_devices.
C6_ImportSucceeds ==
    [][\A c \in Conns :
          /\ (ret[c] = "import" /\ pc[c] = "occ_ad" /\ pc'[c] # "occ_ad"
                /\ AnyBusId(available_devices, bus[c]))
                => /\ pc'[c] = "occ_ud"
                   /\ dev'[c].bus_id = bus[c]
                   /\ ~AnyBusId(available_devices', bus[c])
          /\ (ImportReplied(c) /\ pc[c] = "occ_ud")
                => /\ resp'[c] = op_rep_import_success(UsbDevice(bus[c]))
                   /\ imported_device'[c] = UsbDevice(bus[c])
                   /\ AnyBusId(used_devices', bus[c])
                   /\ ~AnyBusId(available_devices', bus[c])]_vars

\* C6, second half: for as long as a connection keeps a device, an
\* OP_REQ_IMPORT of the same bus id from any other connection gets the
\* failure reply.
C6_OthersFail ==
    [][\A c, other \in Conns :
          (ImportReplied(c) /\ other # c /\ imported_device[other] # None
              /\ imported_device[other].bus_id = bus[c])
              => resp'[c] = op_rep_import_fail]_vars

\* C6: both halves.
C6_ImportExclusive == C6_ImportSucceeds /\ C6_OthersFail

\* The step on which a direct call of occupy by t returns.
OccupyReturns(t) == ret[t] = "api" /\ pc[t] \in {"occ_ad", "occ_ud"} /\ pc'[t] = "idle"

\* C7: occupy(bus_id) fails whenever bus_id is not in available_devices, with
\* the one error "No available device" whether the device is in used_devices
\* or unknown; a failed occupy changes neither vector (and occupy fails in
\* no other case).
C7_OccupyFailsUniformly ==
    [][\A t \in Mgmt :
          /\ (ret[t] = "api" /\ pc[t] = "occ_ad" /\ pc'[t] # "occ_ad"
                /\ ~AnyBusId(available_devices, bus[t]))
                => /\ pc'[t] = "idle"
                   /\ res'[t] = Result("occupy", bus[t], Err(NoAvailableDevice))
                   /\ UNCHANGED poolv
          /\ (OccupyReturns(t) /\ ~res'[t].ok)
                => /\ res'[t].err = NoAvailableDevice
                   /\ ~AnyBusId(available_devices, bus[t])
                   /\ UNCHANGED poolv]_vars

\* two failed calls, one for a bus id that is in used_devices and one for a
\* bus id that is in neither vector
C7_Witness ==
    \E t1, t2 \in Callers :
        /\ res[t1].op = "occupy" /\ ~res[t1].ok /\ res[t1].arg \in IdsOf(used_devices)
        /\ res[t2].op = "occupy" /\ ~res[t2].ok /\ res[t2].arg \notin PoolIds
        /\ res[t1].err = res[t2].err

\* C8: a successful occupy(b) returns the device whose bus_id is b, takes
\* that one device out of available_devices (and puts it into used_devices)
\* and leaves every other device where it was, in the order it was.
C8_OccupyTakesOnlyThat ==
    [][\A t \in Mgmt :
          /\ (ret[t] = "api" /\ pc[t] = "occ_ad" /\ pc'[t] = "occ_ud")
                => /\ dev'[t].bus_id = bus[t]
                   /\ Count(available_devices', bus[t]) = Count(available_devices, bus[t]) - 1
                   /\ FilterOut(available_devices', bus[t]) = FilterOut(available_devices, bus[t])
                   /\ used_devices' = used_devices
          /\ (OccupyReturns(t) /\ res'[t].ok)
                => /\ res'[t].device = dev[t] /\ res'[t].device.bus_id = bus[t]
                   /\ available_devices' = available_devices
                   /\ Count(used_devices', bus[t]) = 1
                   /\ FilterOut(used_devices', bus[t]) = FilterOut(used_devices, bus[t])]_vars

\* occupy returned a device while a device with another bus id is in the pool
C8_Witness ==
    \E t \in Callers :
        /\ res[t].op = "occupy" /\ res[t].ok
        /\ res[t].arg \in IdsOf(used_devices)
        /\ \E b \in IdsOf(available_devices) : b # res[t].arg

RemoveReturns(t) ==
    /\ pc'[t] = "idle" /\ res'[t].op = "remove_device"
    /\ \/ pc[t] = "rm_ud"
       \/ pc[t] = "idle" /\ nops'[t] = nops[t] + 1

\* C10: remove_device(bus_id) returns Ok and takes the device out when the
\* bus id is in available_devices; returns the "in use" error when it is
\* only in used_devices and NotFound when it is in neither, changing neither
\* vector; every call returns one of the three.
C10_RemoveDevice ==
    [][\A t \in Mgmt :
          /\ RemoveReturns(t) =>
                LET b == res'[t].arg IN
                /\ (pc[t] = "rm_ud" => b = bus[t])
                /\ IF AnyBusId(available_devices, b)
                   THEN /\ res'[t].ok
                        /\ Count(available_devices', b) = Count(available_devices, b) - 1
                        /\ FilterOut(available_devices', b) = FilterOut(available_devices, b)
                        /\ used_devices' = used_devices
                   ELSE /\ ~res'[t].ok
                        /\ res'[t].err = (IF AnyBusId(used_devices, b)
                                          THEN DeviceInUse ELSE NotFound)
                        /\ UNCHANGED poolv
          /\ (pc[t] = "idle" /\ pc'[t] = "rm_ud")
                => ~AnyBusId(available_devices, bus'[t]) /\ UNCHANGED poolv
          /\ (pc[t] = "rm_ud" /\ pc'[t] # "rm_ud") => RemoveReturns(t)]_vars

\* one call has failed with "in use" and one with NotFound, a device remains
C10_Witness ==
    \E t1, t2 \in Callers :
        /\ res[t1].op = "remove_device" /\ res[t1].err = DeviceInUse
        /\ res[t1].arg \in IdsOf(used_devices)
        /\ res[t2].op = "remove_device" /\ res[t2].err = NotFound
        /\ res[t2].arg \notin PoolIds

\* a call has returned Ok and the device is gone
C10_WitnessOk ==
    \E t \in Callers :
        /\ res[t].op = "remove_device" /\ res[t].ok /\ res[t].arg \notin PoolIds
        /\ PoolIds # {}
\* C11: devices with distinct bus ids, each added by a task and then removed
\* by a task, all tasks concurrent: every remove_device has returned Ok once
\* it is over, and when all are over available_devices has length 0.
AddRemoveTasks == {t \in Mgmt : bus[t] # NoBus}

C11_AddThenRemoveAll ==
    /\ \A t \in AddRemoveTasks :
          /\ pc[t] = "idle"
          /\ nops[t] = 2 => res[t] = Result("remove_device", bus[t], Ok(None))
    /\ (\A t \in AddRemoveTasks : nops[t] = 2) => Len(available_devices) = 0

C11_Witness ==
    /\ Cardinality(AddRemoveTasks) >= 2
    /\ \A t \in AddRemoveTasks : nops[t] = 2 /\ res[t].op = "remove_device" /\ res[t].ok
    /\ available_devices = <<>>

\* C12: when a connection reads the pool for OP_REQ_DEVLIST, the reply it
\* builds lists available_devices as it is at that moment, in order, and no
\* device of used_devices; an empty available_devices gives zero devices.
C12_DevlistIsAvailable ==
    [][\A c \in Conns :
          (pc[c] = "devlist" /\ pc'[c] # "devlist") =>
              /\ resp'[c].kind = "OpRepDevlist"
              /\ resp'[c].devices = available_devices
              /\ IdsOf(resp'[c].devices) \cap IdsOf(used_devices) = {}
              /\ (available_devices = <<>> => Len(resp'[c].devices) = 0)]_vars

C12_Witness ==
    \E c \in Conns :
        /\ pc[c] = "write" /\ command[c] = OpReqDevlist
        /\ resp[c].kind = "OpRepDevlist"
        /\ resp[c].devices = available_devices /\ Len(resp[c].devices) >= 1
        /\ used_devices # <<>>

\* C13: an OP_REQ_IMPORT with a valid bus id read while a device is held
\* takes the device out of the slot and releases it before anything else;
\* when that release is over the device is in available_devices and not in
\* used_devices, and only then is occupy attempted, with the slot empty all
\* the while.  A success reply leaves the requested device in the slot and in
\* used_devices; a failure reply leaves the slot empty and the pool as it
\* was, so what was released stays released.
Importing(c) == ret[c] = "import" /\ pc[c] \in {"rel_ud", "rel_ad", "occ_ad", "occ_ud"}

C13_ReimportReplaces ==
    [][\A c \in Conns :
          /\ Importing(c) => imported_device[c] = None
          /\ (pc[c] = "read" /\ pc'[c] # "read" /\ imported_device[c] # None
                 /\ command'[c].kind = "OpReqImport" /\ command'[c].busid.utf8)
               => /\ pc'[c] = "rel_ud" /\ ret'[c] = "import"
                  /\ dev'[c] = imported_device[c]
                  /\ imported_device'[c] = None
          /\ (pc[c] = "rel_ad" /\ ret[c] = "import" /\ pc'[c] # "rel_ad")
               => /\ pc'[c] = "occ_ad"
                  /\ dev[c].bus_id \in IdsOf(available_devices')
                  /\ dev[c].bus_id \notin IdsOf(used_devices')
          /\ (Importing(c) /\ pc'[c] = "write")
               => /\ resp'[c].kind = "OpRepImport"
                  /\ IF resp'[c].status = 0
                     THEN /\ imported_device'[c] = UsbDevice(command[c].busid.bus_id)
                          /\ resp'[c].device = imported_device'[c]
                          /\ command[c].busid.bus_id \in IdsOf(used_devices')
                     ELSE /\ imported_device'[c] = None
                          /\ poolv' = poolv]_vars

\* a re-import has released the device it held and is about to occupy another
C13_Witness ==
    \E c \in Conns :
        /\ pc[c] = "occ_ad" /\ ret[c] = "import"
        /\ dev[c] # None /\ bus[c] # dev[c].bus_id
        /\ dev[c].bus_id \in IdsOf(available_devices)
        /\ imported_device[c] = None

\* C14: a USBIP_CMD_SUBMIT read while the slot is empty builds no reply and
\* does not call the URB handler; the connection is left reading, its slot
\* empty, handler() not returned and the pool untouched, and it takes the
\* next command.
C14_SubmitWithoutDeviceDropped ==
    [][/\ (pc[Peer] = "read" /\ ncmd' # ncmd /\ imported_device[Peer] = None
             /\ command'[Peer].kind = "UsbIpCmdSubmit")
           => /\ resp'[Peer] = NoResp /\ resp[Peer] = NoResp
              /\ urb'[Peer] = NotCalled
              /\ pc'[Peer] = "read" /\ hres'[Peer] = "none"
              /\ imported_device'[Peer] = None
              /\ poolv' = poolv
       /\ (pc[Peer] = "read" /\ command[Peer].kind = "UsbIpCmdSubmit" /\ ncmd < MaxCmds)
           => /\ ENABLED ReadDevlist(Peer)
              /\ \A field \in ImportFields : ENABLED ReadImport(Peer, field)]_vars

\* the connection has dropped a submit and is reading again
C14_Witness ==
    /\ pc[Peer] = "read" /\ command[Peer].kind = "UsbIpCmdSubmit"
    /\ urb[Peer] = NotCalled /\ resp[Peer] = NoResp
    /\ imported_device[Peer] = None /\ hres[Peer] = "none"

\* C15: every USBIP_CMD_UNLINK read, with or without an imported device and
\* whatever its header and unlink_seqnum, builds one USBIP_RET_UNLINK reply
\* with status 0; that reply is what the connection writes next, once, and
\* the slot is not touched.
C15_UnlinkAlwaysAcknowledged ==
    [][/\ (pc[Peer] = "read" /\ ncmd' # ncmd /\ command'[Peer].kind = "UsbIpCmdUnlink")
           => /\ pc'[Peer] = "write"
              /\ resp'[Peer].kind = "UsbIpRetUnlink"
              /\ resp'[Peer].status = 0
              /\ resp'[Peer].header.command = USBIP_RET_UNLINK
              /\ imported_device'[Peer] = imported_device[Peer]
       /\ (pc[Peer] = "write" /\ command[Peer].kind = "UsbIpCmdUnlink")
           => /\ resp[Peer].kind = "UsbIpRetUnlink" /\ resp[Peer].status = 0
              /\ (resp'[Peer] # resp[Peer]
                    => pc'[Peer] # "write" /\ resp'[Peer] = NoResp
                       /\ command'[Peer] = NoCommand)]_vars

\* the first command of a connection without a device is an unlink of a
\* seqnum that is not its own: nothing was ever submitted
C15_Witness ==
    /\ pc[Peer] = "write" /\ ncmd = 1
    /\ command[Peer].kind = "UsbIpCmdUnlink"
    /\ command[Peer].unlink_seqnum # command[Peer].header.seqnum
    /\ imported_device[Peer] = None
    /\ resp[Peer].kind = "UsbIpRetUnlink" /\ resp[Peer].status = 0

\* C16: a USBIP_CMD_SUBMIT read with a device imported whose resolved
\* endpoint address (header.ep, with bit 7 set when header.direction is not
\* 0) is not an endpoint address of that device builds a USBIP_RET_SUBMIT
\* failure reply with actual_length 0 without calling the URB handler; once
\* the reply is written the connection is reading again with the same device.
SubmitRead(c) ==
    pc[c] = "read" /\ ncmd' # ncmd /\ command'[c].kind = "UsbIpCmdSubmit"
        /\ imported_device[c] # None

C16_UnknownEndpointFails ==
    [][/\ (SubmitRead(Peer)
             /\ real_ep(command'[Peer].header) \notin EndpointAddresses(imported_device[Peer]))
           => /\ pc'[Peer] = "write"
              /\ resp'[Peer].kind = "UsbIpRetSubmit"
              /\ resp'[Peer].status # 0
              /\ resp'[Peer].actual_length = 0
              /\ urb'[Peer] = NotCalled
              /\ imported_device'[Peer] = imported_device[Peer]
       /\ (pc[Peer] = "write" /\ command[Peer].kind = "UsbIpCmdSubmit"
             /\ pc'[Peer] = "read")
           => /\ imported_device'[Peer] = imported_device[Peer]
              /\ hres'[Peer] = "none"]_vars

\* C17: when the URB handler returns an error for a submit, the reply built
\* is a USBIP_RET_SUBMIT failure whose actual_length is 0 when the endpoint
\* the URB went to is an IN endpoint and transfer_buffer_length when it is an
\* OUT endpoint; the slot keeps its device, once the reply is written the
\* connection reads again with that device, and the handler is called for a
\* command only when the command is read, never again.
UrbEndpoint(c) == AsU8(real_ep(command[c].header))

C18_SuccessLengthByHeaderDirection ==
    [][(SubmitRead(Peer) /\ urb'[Peer].kind = "Ok")
          => /\ resp'[Peer].kind = "UsbIpRetSubmit"
             /\ resp'[Peer].status = 0
             /\ resp'[Peer].actual_length =
                   IF command'[Peer].header.direction # 0 THEN urb'[Peer].len
                   ELSE command'[Peer].transfer_buffer_length]_vars

\* C19: every USBIP_RET_SUBMIT and USBIP_RET_UNLINK reply a connection has
\* built, success or failure, has devid, direction and ep equal to 0 in its
\* header, the RET code of the command it answers in the command field, and
\* that command's seqnum.
C19_ReplyHeader ==
    \A c \in Conns :
        resp[c].kind \in {"UsbIpRetSubmit", "UsbIpRetUnlink"} =>
            /\ resp[c].header.devid = 0
            /\ resp[c].header.direction = 0
            /\ resp[c].header.ep = 0
            /\ resp[c].header.seqnum = command[c].header.seqnum
            /\ \/ /\ command[c].kind = "UsbIpCmdSubmit"
                  /\ resp[c].kind = "UsbIpRetSubmit"
                  /\ resp[c].header.command = USBIP_RET_SUBMIT
               \/ /\ command[c].kind = "UsbIpCmdUnlink"
                  /\ resp[c].kind = "UsbIpRetUnlink"
                  /\ resp[c].header.command = USBIP_RET_UNLINK

\* a failure reply to a submit whose header had every field non-zero
C19_Witness ==
    /\ resp[Peer].kind = "UsbIpRetSubmit" /\ resp[Peer].status # 0
    /\ command[Peer].header.seqnum = 9
    /\ command[Peer].header.devid # 0
    /\ command[Peer].header.direction = 1
    /\ command[Peer].header.ep = 258

\* C20: a task that looks at the pool (the read of OP_REQ_DEVLIST, either
\* branch of remove_device) while other tasks run occupy, release or cleanup
\* sees every device the pool holds in exactly one of the two sets: none
\* that an occupy has taken out of available_devices and not yet put into
\* used_devices, none in both.  So remove_device returns NotFound only for a
\* bus id the pool does not hold, and "in use" only for one in used_devices.
InTransit == {dev[t].bus_id : t \in {u \in Tasks : pc[u] = "occ_ud"}}

Observes(t) ==
    \/ pc[t] = "devlist" /\ pc'[t] # "devlist"
    \/ pc[t] = "rm_ud" /\ pc'[t] # "rm_ud"
    \/ pc[t] = "idle" /\ res'[t] # res[t] /\ res'[t].op = "remove_device"

C20_ObserversSeeWholeMoves ==
    [][\A t \in Tasks :
          /\ Observes(t) =>
                /\ InTransit = {}
                /\ IdsOf(available_devices) \cap IdsOf(used_devices) = {}
          /\ (pc[t] = "rm_ud" /\ pc'[t] # "rm_ud") =>
                /\ res'[t].err = NotFound =>
                      bus[t] \notin IdsOf(available_devices) \cup IdsOf(used_devices)
                                     \cup InTransit
                /\ res'[t].err = DeviceInUse =>
                      /\ bus[t] \in IdsOf(used_devices)
                      /\ bus[t] \notin IdsOf(available_devices)]_vars

\* an occupy is between its two vectors while a devlist waits to read
C20_Witness ==
    \E c, d \in Conns :
        /\ pc[c] = "occ_ud" /\ ad_lock = c
        /\ dev[c].bus_id \notin IdsOf(available_devices) \cup IdsOf(used_devices)
        /\ pc[d] = "devlist"

\* A step by which connection c's handler() returns an error.
EndsWithError(c) == hres'[c] = "Err" /\ pc'[c] # pc[c]

\* Connection c ended with an error and is inside the release of its device,
\* holding the used_devices lock and waiting for the available_devices lock,
\* which connection d holds inside occupy while it waits for used_devices.
BlockedBy(c, d) ==
    /\ hres[c] = "Err" /\ pc[c] = "rel_ad" /\ ud_lock = c
    /\ pc[d] = "occ_ud" /\ ad_lock = d

\* The part of C21 about state: the step by which a connection ends with an
\* error changes no other connection's slot, reply or place in its loop, and
\* the listener can accept whatever connection is still to come.
C21_OthersUntouched ==
    [][\A c, d \in Conns : c # d =>
          /\ EndsWithError(c) =>
                /\ imported_device'[d] = imported_device[d]
                /\ resp'[d] = resp[d]
                /\ pc'[d] = pc[d] /\ hres'[d] = hres[d]
          /\ (hres[c] = "Err" /\ pc[d] = "listen") => ENABLED Accept(d)]_vars

\* C21: a connection task that ended with an error does not change the
\* liveness of any other connection: no other connection is left waiting for
\* a pool lock that the ended task's release of its device will never free.
C21_ErrorIsolated == \A c, d \in Conns : ~BlockedBy(c, d)

\* C22: when read_from_socket fails, handler() returns Ok for an unexpected
\* end of stream and the error otherwise; either way it reads no further
\* command, and when it returns the slot is empty and the device the slot
\* held has gone through release() into available_devices.
C22_ReadErrorReturns ==
    [][\A c \in Conns :
         /\ (pc[c] = "read" /\ command'[c].kind = "ReadFailed") =>
               /\ hres'[c] = IF command'[c].err = "UnexpectedEof" THEN "Ok" ELSE "Err"
               /\ imported_device'[c] = None
               /\ IF imported_device[c] # None
                  THEN pc'[c] = "rel_ud" /\ dev'[c] = imported_device[c]
                  ELSE pc'[c] = "done"
         /\ command[c].kind = "ReadFailed" =>
               /\ command'[c] = command[c] /\ hres'[c] = hres[c]
               /\ imported_device'[c] = None
               /\ pc'[c] \in {"rel_ud", "rel_ad", "done"}
               /\ (pc[c] # "done" /\ pc'[c] = "done") =>
                     /\ pc[c] = "rel_ad"
                     /\ Count(available_devices', dev[c].bus_id) = 1]_vars

\* a read failed with another error than end of stream while the connection
\* held a device; the handler has returned the error after releasing it
C22_Witness ==
    \E c \in Conns :
        /\ pc[c] = "done" /\ command[c] = ReadFailed("Other")
        /\ hres[c] = "Err" /\ dev[c] # None /\ imported_device[c] = None

\* C23: the step by which cleanup() returns leaves used_devices empty; on
\* Linux it leaves available_devices empty too, elsewhere available_devices
\* keeps the devices it had, in place, holds every bus id that was in
\* used_devices, and has no bus id more often than before unless it was
\* absent, and then once.
CleanupReturns(t) == pc[t] = "cl_ad" /\ pc'[t] = "idle"

C23_CleanupMovesAll ==
    [][\A t \in Mgmt : CleanupReturns(t) =>
          /\ used_devices' = <<>>
          /\ IF linux
             THEN available_devices' = <<>>
             ELSE /\ Len(available_devices') >= Len(available_devices)
                  /\ SubSeq(available_devices', 1, Len(available_devices))
                        = available_devices
                  /\ IdsOf(available_devices')
                        = IdsOf(available_devices) \cup IdsOf(used_devices)
                  /\ \A b \in BusIds :
                        Count(available_devices', b)
                           = IF Count(available_devices, b) > 0
                             THEN Count(available_devices, b)
                             ELSE IF b \in IdsOf(used_devices) THEN 1 ELSE 0]_vars

\* cleanup() was the manager's only call and has returned off Linux while
\* both connections held a device: both devices are back in
\* available_devices and used_devices is empty
C23_Witness ==
    /\ ~linux /\ used_devices = <<>>
    /\ res["m1"].op = "cleanup" /\ pc["m1"] = "idle" /\ nops["m1"] = 1
    /\ imported_device["c1"] # None /\ imported_device["c2"] # None
    /\ imported_device["c1"] # imported_device["c2"]
    /\ IdsOf(available_devices) = BusIds

\* C25: when the transfer the host backend made for a submitted URB failed,
\* the reply the connection is about to write is a USBIP_RET_SUBMIT with a
\* non-zero status, never a success reply.
TransferFailed(c) ==
    /\ pc[c] = "write" /\ command[c].kind = "UsbIpCmdSubmit"
    /\ urb[c] # NotCalled /\ ~urb[c].backend.ok
    /\ urb[c].attributes \in {"Control", "Interrupt", "Bulk"}

C25_FailedTransferFails ==
    TransferFailed(Peer) =>
        /\ urb[Peer].kind = "Err"
        /\ resp[Peer].kind = "UsbIpRetSubmit" /\ resp[Peer].status # 0

\* The transfers for which C25 holds: every OUT transfer and bulk IN.
C25_ReturnedWithQuestionMark ==
    (TransferFailed(Peer) /\ ~(urb[Peer].dir_in /\ urb[Peer].attributes # "Bulk")) =>
        /\ urb[Peer].kind = "Err"
        /\ resp[Peer].kind = "UsbIpRetSubmit" /\ resp[Peer].status # 0

\* C28: an OP_REQ_IMPORT whose bus id is not UTF-8 never reaches occupy and
\* gets no reply; the connection stays open, its slot is emptied, a device
\* the slot held goes through release into available_devices, and the
\* connection is back at reading with an empty slot.
BadImportRead(c) ==
    pc[c] = "read" /\ ncmd' # ncmd /\ command'[c] = OpReqImport(BadImportField)

C28_InvalidBusId ==
    [][/\ BadImportRead(Peer) =>
             /\ resp'[Peer] = NoResp /\ hres'[Peer] = hres[Peer]
             /\ imported_device'[Peer] = None
             /\ IF imported_device[Peer] # None
                THEN /\ pc'[Peer] = "rel_ud" /\ ret'[Peer] = "bad_import"
                     /\ dev'[Peer] = imported_device[Peer]
                ELSE pc'[Peer] = "read"
       /\ ret[Peer] = "bad_import" =>
             /\ resp'[Peer] = NoResp /\ hres'[Peer] = hres[Peer]
             /\ imported_device'[Peer] = None
             /\ command'[Peer] = command[Peer]
             /\ pc'[Peer] \in {"rel_ud", "rel_ad", "read"}
             /\ pc'[Peer] = "read" =>
                   /\ pc[Peer] = "rel_ad"
                   /\ Count(available_devices', dev[Peer].bus_id) = 1]_vars

\* the connection held a device when the invalid import came and is inside
\* the release of that device
C28_Witness ==
    /\ ret[Peer] = "bad_import" /\ pc[Peer] = "rel_ad"
    /\ command[Peer] = OpReqImport(BadImportField)
    /\ dev[Peer] # None /\ imported_device[Peer] = None

\* C27: a panic of the URB handler ends the connection task only after the
\* device in the connection's slot has been released: the device is then in
\* available_devices and no longer in used_devices.
Panics(c) == pc[c] # "panicked" /\ pc'[c] = "panicked"

C27_PanicReleases ==
    [][(Panics(Peer) /\ imported_device[Peer] # None) =>
          /\ imported_device[Peer].bus_id \in IdsOf(available_devices')
          /\ imported_device[Peer].bus_id \notin IdsOf(used_devices')]_vars

\* C24: a device enters a connection's slot by a successful import and
\* leaves it only by the connection calling release for it, and release is
\* called only with the device just taken out of the slot; the task ends
\* with an empty slot.  So each imported device is released once, not zero
\* times and not twice.
CallsRelease(c) == pc[c] # "rel_ud" /\ pc'[c] = "rel_ud"

SlotReleasedOnce(c) ==
    /\ (imported_device[c] # None /\ imported_device'[c] # imported_device[c]) =>
          CallsRelease(c)
    /\ CallsRelease(c) =>
          /\ imported_device[c] # None /\ dev'[c] = imported_device[c]
          /\ imported_device'[c] = None
    /\ pc'[c] \in {"done", "panicked"} => imported_device'[c] = None

C24_ReleasedExactlyOnce == [][SlotReleasedOnce(Peer)]_vars

\* The same for every step but a panic of the URB handler.
C24_UnlessPanic == [][Panics(Peer) \/ SlotReleasedOnce(Peer)]_vars

\* C26: no reachable state has two tasks that each hold one of the two pool
\* locks and wait for the other: one inside occupy or remove_device with the
\* available_devices lock, the other inside release or cleanup with the
\* used_devices lock.  (From such a state neither call returns, whatever the
\* scheduler does.)
LockCycle(t, u) ==
    /\ ad_lock = t /\ pc[t] \in {"occ_ud", "rm_ud"}
    /\ ud_lock = u /\ pc[u] \in {"rel_ad", "cl_ad"}

C26_NoLockCycle == \A t, u \in Tasks : ~LockCycle(t, u)

\* C29: the address a submit is resolved with is real_ep itself (header.ep,
\* or header.ep | 0x80 for a non-zero direction): the URB handler is called
\* only when that 32-bit value is an endpoint address of the device, and a
\* header.ep above 0xFF gets the endpoint-not-found reply.
SubmitAnswered(c) ==
    /\ pc[c] = "write" /\ command[c].kind = "UsbIpCmdSubmit"
    /\ imported_device[c] # None

C29_LookupIsRealEp ==
    SubmitAnswered(Peer) =>
        LET header == command[Peer].header
            address == real_ep(header)
        IN  /\ address = header.ep + (IF header.direction # 0 /\ (header.ep \div 128) % 2 = 0
                                      THEN 128 ELSE 0)
            /\ urb[Peer] # NotCalled =>
                  address \in EndpointAddresses(imported_device[Peer])
            /\ header.ep > 255 =>
                  /\ urb[Peer] = NotCalled
                  /\ resp[Peer] = usbip_ret_submit_fail(
                                     ReplyHeader(header, USBIP_RET_SUBMIT), 0)

\* C30: reading and serving an OP_REQ_DEVLIST, a USBIP_CMD_SUBMIT or a
\* USBIP_CMD_UNLINK, whatever it carries and however the URB handler and
\* the reply's write end, changes neither available_devices nor
\* used_devices; while the connection's task goes on, the slot is as it was.
FrameCommands == {"OpReqDevlist", "UsbIpCmdSubmit", "UsbIpCmdUnlink"}

ReadsFrameCommand(c) ==
    pc[c] = "read" /\ ncmd' # ncmd /\ command'[c].kind \in FrameCommands

ServesFrameCommand(c) ==
    /\ pc[c] \in {"devlist", "write"} /\ pc'[c] # pc[c]
    /\ command[c].kind \in FrameCommands

C30_CommandsLeavePoolAndSlot ==
    [][(ReadsFrameCommand(Peer) \/ ServesFrameCommand(Peer)) =>
          /\ available_devices' = available_devices
          /\ used_devices' = used_devices
          /\ pc'[Peer] \in {"read", "devlist", "write", "done"} =>
                imported_device'[Peer] = imported_device[Peer]]_vars

\* the reply to an unlink is about to be written on a connection that holds
\* a device, which is in used_devices
C30_Witness ==
    /\ pc[Peer] = "write" /\ command[Peer].kind = "UsbIpCmdUnlink"
    /\ imported_device[Peer] # None
    /\ imported_device[Peer].bus_id \in IdsOf(used_devices)
    /\ resp[Peer].kind = "UsbIpRetUnlink"

\* C31: as long as cleanup() has not been called (add_device being called
\* only with a bus id that is in neither set), a device in a connection's
\* import slot has its bus id in used_devices and not in available_devices.
C31_SlotDeviceIsUsed ==
    ~cleaned =>
        \A c \in Conns :
            imported_device[c] # None =>
                /\ imported_device[c].bus_id \in IdsOf(used_devices)
                /\ imported_device[c].bus_id \notin IdsOf(available_devices)

\* no cleanup so far; the manager has added a device and tried to remove
\* one while a connection holds a device and another has ended
C31_Witness ==
    /\ ~cleaned /\ nops["m1"] = MaxOps
    /\ res["m1"].op \in {"add_device", "remove_device"}
    /\ \E c, d \in Conns :
          /\ imported_device[c] # None /\ pc[c] = "read"
          /\ pc[d] = "done" /\ dev[d] # None

\* A connection whose OP_REQ_IMPORT names the bus id of the device it held
\* when the command was read.
ReimportOwn(c) ==
    ret[c] = "import" /\ dev[c] # None /\ bus[c] = dev[c].bus_id

\* C32 as stated: a connection that re-imports the device it holds gets a
\* success reply and holds that device again, whatever the other connection
\* does meanwhile (the manager not having called the pool).
C32_ReimportOwnSucceeds ==
    [][\A c \in Conns :
          (nops["m1"] = 0 /\ ReimportOwn(c) /\ pc[c] \in {"occ_ad", "occ_ud"}
              /\ pc'[c] = "write")
            => /\ resp'[c] = op_rep_import_success(dev[c])
               /\ imported_device'[c] = dev[c]]_vars

\* C32 as amended: the re-import releases the device and then calls occupy;
\* it gets the success reply and holds the device again exactly when the bus
\* id is still in available_devices at the moment occupy looks for it, and
\* otherwise (another task took it after the release) it gets the failure
\* reply and holds nothing.
C32_ReimportOwnUnlessTaken ==
    [][\A c \in Conns :
          /\ (ReimportOwn(c) /\ pc[c] = "rel_ad" /\ pc'[c] # "rel_ad")
               => pc'[c] = "occ_ad" /\ bus[c] \in IdsOf(available_devices')
          /\ (ReimportOwn(c) /\ pc[c] = "occ_ad" /\ pc'[c] # "occ_ad")
               => IF bus[c] \in IdsOf(available_devices)
                  THEN pc'[c] = "occ_ud" /\ imported_device'[c] = None
                  ELSE /\ pc'[c] = "write"
                       /\ resp'[c] = op_rep_import_fail
                       /\ imported_device'[c] = None
          /\ (ReimportOwn(c) /\ pc[c] = "occ_ud" /\ pc'[c] # "occ_ud")
               => /\ pc'[c] = "write"
                  /\ resp'[c] = op_rep_import_success(dev[c])
                  /\ imported_device'[c] = dev[c]]_vars

\* a connection has re-imported the device it held and holds it again
C32_Witness ==
    \E c \in Conns :
        /\ pc[c] = "write" /\ command[c].kind = "OpReqImport" /\ ncmd >= 2
        /\ resp[c].kind = "OpRepImport" /\ resp[c].status = 0
        /\ imported_device[c] # None
        /\ command[c].busid.bus_id = imported_device[c].bus_id
        /\ IdsOf(used_devices) = {imported_device[c].bus_id}
        /\ nops["m1"] = 0 /\ \A d \in Conns \ {c} : command[d] = NoCommand /\ pc[d] = "read"

\* The step by which handler() returns: after a failed read, once the
\* release it called is over (or at once with an empty slot), and after a
\* failed write of a reply, at once.
ReturnsAfterRead(c) ==
    command'[c].kind = "ReadFailed" /\ pc[c] # "done" /\ pc'[c] = "done"

ReturnsAfterWrite(c) == pc[c] = "write" /\ hres'[c] = "Err"

ReadReturnReleased(c) ==
    ReturnsAfterRead(c) =>
        /\ imported_device'[c] = None
        /\ pc[c] = "rel_ad" => Count(available_devices', dev[c].bus_id) = 1

\* C33 as stated: whenever handler() returns, after a failed read or a
\* failed write of a reply, the slot it was given is empty and the device it
\* held is back in available_devices.
C33_HandlerReturnsEmpty ==
    [][\A c \in Conns :
          /\ ReadReturnReleased(c)
          /\ ReturnsAfterWrite(c) => imported_device[c] = None]_vars

\* C33 as amended: that holds when handler() returns after a failed read;
\* when it returns because the write of a reply failed, the slot is as it
\* was, and a device in it is taken and released by the caller, the task
\* that server() spawned, and is back in available_devices when that task
\* ends.
C33_HandlerOrCallerReleases ==
    [][\A c \in Conns :
          /\ ReadReturnReleased(c)
          /\ ReturnsAfterWrite(c) =>
                IF imported_device[c] # None
                THEN /\ pc'[c] = "rel_ud" /\ ret'[c] = "srv"
                     /\ dev'[c] = imported_device[c]
                     /\ imported_device'[c] = None
                ELSE pc'[c] = "done" /\ imported_device'[c] = None
          /\ (ret[c] = "srv" /\ pc[c] = "rel_ad" /\ pc'[c] # "rel_ad") =>
                /\ pc'[c] = "done"
                /\ Count(available_devices', dev[c].bus_id) = 1]_vars

\* handler() has returned the error of a failed write with a device in the
\* slot; the spawned task has taken it and is about to release it
C33_Witness ==
    \E c \in Conns :
        /\ pc[c] = "rel_ud" /\ ret[c] = "srv" /\ hres[c] = "Err"
        /\ dev[c] # None /\ imported_device[c] = None
        /\ dev[c].bus_id \in IdsOf(used_devices)

\* The commands C34 is about, given the slot when the command is read.
Answerable(cmd, slot) ==
    \/ cmd.kind \in {"OpReqDevlist", "UsbIpCmdUnlink"}
    \/ cmd.kind = "OpReqImport" /\ cmd.busid.utf8
    \/ cmd.kind = "UsbIpCmdSubmit" /\ slot # None

\* r is the reply to cmd.
ReplyFor(cmd, r) ==
    CASE cmd.kind = "OpReqDevlist" -> r.kind = "OpRepDevlist"
      [] cmd.kind = "OpReqImport" -> r.kind = "OpRepImport"
      [] cmd.kind = "UsbIpCmdSubmit" ->
            r.kind = "UsbIpRetSubmit" /\ r.header.seqnum = cmd.header.seqnum
      [] cmd.kind = "UsbIpCmdUnlink" ->
            r.kind = "UsbIpRetUnlink" /\ r.header.seqnum = cmd.header.seqnum
      [] OTHER -> FALSE

\* The connection is between reading a command and having its reply built.
Serving(c) ==
    \/ pc[c] = "devlist"
    \/ ret[c] = "import" /\ pc[c] \in {"rel_ud", "rel_ad", "occ_ad", "occ_ud"}

OneReplyInOrder(c) ==
    /\ (pc[c] = "read" /\ ncmd' # ncmd /\ Answerable(command'[c], imported_device[c])) =>
          \/ pc'[c] = "write" /\ ReplyFor(command'[c], resp'[c])
          \/ pc'[c] \in {"devlist", "rel_ud", "occ_ad"} /\ resp'[c] = NoResp
    /\ Serving(c) =>
          /\ command'[c] = command[c]
          /\ \/ pc'[c] = "write" /\ ReplyFor(command[c], resp'[c])
             \/ pc'[c] \in {"devlist", "rel_ud", "rel_ad", "occ_ad", "occ_ud"}
                  /\ resp'[c] = NoResp
    /\ pc[c] = "write" =>
          /\ ReplyFor(command[c], resp[c])
          /\ pc'[c] # "write" => resp'[c] = NoResp /\ command'[c] = NoCommand
          /\ pc'[c] = "write" => resp'[c] = resp[c] /\ command'[c] = command[c]

\* C34: on one connection each OP_REQ_DEVLIST, OP_REQ_IMPORT with a valid
\* bus id, USBIP_CMD_UNLINK, and USBIP_CMD_SUBMIT read with a device
\* imported has one reply built for it, which is written once, and no
\* further command is read before that write.
C34_OneReplyInOrder == [][OneReplyInOrder(Peer)]_vars

\* The same for every step but a panic of the URB handler.
C34_UnlessPanic == [][Panics(Peer) \/ OneReplyInOrder(Peer)]_vars

\* text is what the field holds before its first zero byte: a prefix of the
\* field without a zero byte that ends at a zero byte or at the field's end.
BeforeFirstZero(busid, text) ==
    /\ Len(text) <= Len(busid)
    /\ \A i \in 1..Len(text) : text[i] = busid[i] /\ text[i] # 0
    /\ Len(text) < Len(busid) => busid[Len(text) + 1] = 0

\* C35: the bus id an OP_REQ_IMPORT asks for is the bytes of the field
\* before its first zero byte, all of them when there is none.  Whether the
\* import reaches occupy depends on those bytes alone, occupy succeeds
\* exactly when a device of that name is in available_devices, and the
\* device imported has that name; the bytes after the first zero byte do
\* not enter.
C35_BusIdIsPrefix ==
    [][/\ (pc[Peer] = "read" /\ ncmd' # ncmd) =>
             \E text \in UNION {[1..n -> BusIdBytes] : n \in 0..FieldLen} :
                /\ BeforeFirstZero(command'[Peer].busid.raw, text)
                /\ (ret'[Peer] = "import") <=> (\A i \in 1..Len(text) : text[i] # 255)
       /\ (pc[Peer] = "occ_ad" /\ pc'[Peer] # "occ_ad") =>
             \E text \in UNION {[1..n -> BusIdBytes] : n \in 0..FieldLen} :
                /\ BeforeFirstZero(command[Peer].busid.raw, text)
                /\ (pc'[Peer] = "occ_ud") <=>
                      (\E i \in 1..Len(available_devices) :
                          BusIdText(available_devices[i].bus_id) = text)
       /\ (pc[Peer] = "occ_ud" /\ pc'[Peer] = "write") =>
             /\ resp'[Peer] = op_rep_import_success(imported_device'[Peer])
             /\ BeforeFirstZero(command[Peer].busid.raw,
                                BusIdText(imported_device'[Peer].bus_id))]_vars

\* a device has been imported by a field whose bytes after the first zero
\* byte are not zero, one of them not even text
C35_Witness ==
    /\ pc[Peer] = "write" /\ command[Peer].kind = "OpReqImport"
    /\ resp[Peer].kind = "OpRepImport" /\ resp[Peer].status = 0
    /\ command[Peer].busid.raw[1] = 50 /\ command[Peer].busid.raw[2] = 0
    /\ command[Peer].busid.raw[3] = 255
    /\ imported_device[Peer] = UsbDevice(2)

\* C36: for a bulk IN transfer the handler computes the buffer length
\* without overflow, and the length is the smallest multiple of the
\* endpoint's max_packet_size that is not below transfer_buffer_length,
\* for every transfer_buffer_length, 0 included.
BulkIn(c) ==
    /\ command[c].kind = "UsbIpCmdSubmit" /\ urb[c] # NotCalled
    /\ urb[c].attributes = "Bulk" /\ urb[c].dir_in

C36_BulkInBufferLength ==
    BulkIn(Peer) =>
        LET n == command[Peer].transfer_buffer_length
            m == urb[Peer].max_packet_size
            r == urb[Peer].requested_len
        IN  /\ urb[Peer].kind # "Panic"
            /\ r % m = 0 /\ r >= n /\ r - m < n

\* The same for every transfer_buffer_length but 0.
C36_UnlessZero ==
    (BulkIn(Peer) /\ command[Peer].transfer_buffer_length # 0) =>
        LET n == command[Peer].transfer_buffer_length
            m == urb[Peer].max_packet_size
            r == urb[Peer].requested_len
        IN  /\ urb[Peer].kind # "Panic"
            /\ r % m = 0 /\ r >= n /\ r - m < n

====
